---- MODULE Spec2Model ----
(***************************************************************************)
(* State-machine model of the payday-mcp pipeline scripts:                 *)
(*   scripts/build_pipeline.py    (SpecBuild)                              *)
(*   scripts/export_json.py       (SpecExport)                             *)
(*   scripts/bronze_fetch_full.py (SpecPages, SpecPagesFair, SpecFetch)    *)
(*   bronze_fetch_full.py, then build_pipeline.py (SpecIngestBuild)        *)
(*   scripts/test_pipeline.py     (SpecTestPipeline)                       *)
(*   scripts/bronze_fetch.py      (SpecBronzeFetch)                        *)
(*   scripts/silver_test.py       (SpecSilverTest)                         *)
(*   scripts/convert_to_parquet.py (SpecConvert)                           *)
(* Each script is a separate OS process; each specification runs one of    *)
(* them from its entry point and leaves the other scripts' state alone.    *)
(***************************************************************************)
EXTENDS Integers, Sequences, FiniteSets, TLC

VARIABLES
    \* ---- build_pipeline.py ----
    bpPc,          \* position of main: start, loop, wait, sleep, returned, exited
    bronzeFiles,   \* number of data/bronze/payday/*.jsonl files seen by the glob
    stepIdx,       \* index into steps of the for loop (1-based)
    running,       \* names of the step subprocesses that are alive
    launched,      \* step names in the order subprocess.run launched them
    finished,      \* CompletedProcess records in the order subprocess.run returned
    bpOut,         \* tags of the lines printed by build_pipeline
    mainRet,       \* return value of main: "none", "True", "False"
    bpExit,        \* exit status of the process, -1 while it runs
    \* ---- export_json.py ----
    exPc,          \* position of main
    exArgs,        \* parsed command line
    view,          \* rows of the view (first-column values) in storage order
    serializable,  \* whether json.dumps can encode the view's values
    con,           \* the name con: unbound, open, closed
    exSql,         \* the SQL text built, as a sequence of clauses
    exData,        \* data: list of row dictionaries
    exPayload,     \* payload: the serialized JSON text
    exStdout,      \* payloads printed to stdout
    exFile,        \* payloads written to the --out file
    exStderr,      \* tags of the lines printed to stderr
    exRaised,      \* where an exception was raised in the try body, "none" if nowhere
    exPending,     \* exception propagating out of main: none, SystemExit, NameError
    exExit,        \* exit status of the process, -1 while it runs
    \* ---- bronze_fetch_full.py: fetch_all_pages ----
    fapPc,         \* position of fetch_all_pages: idle, loop, returned, raised
    fapTool,       \* tool_name
    toolShape,     \* the response format the tool uses for its list pages
    page,          \* page
    all_data,      \* all_data, run-length coded: [first, last, n] is items 1..n of each page first..last
    mcpCalls,      \* the calls made to the MCP bridge, run-length coded: [tool, first, last, result]
    fapResult,     \* the value fetch_all_pages returned
    \* ---- bronze_fetch_full.py: main and fetch_resource ----
    fmPc,          \* position of main: idle, start, loop, paginating, done
    RESOURCES,     \* the list parsed from PAYDAY_RESOURCES
    distExists,    \* os.path.exists("dist")
    rIdx,          \* index into RESOURCES of the for loop (1-based)
    attempted,     \* the arguments of the fetch_resource calls, in order
    results,       \* results
    dirs,          \* the resource directories that exist under data/bronze/payday
    files,         \* the snapshot files: (resource, lines) pairs, the lines run-length coded
    total_records, \* total_records of the summary, -1 before it is computed
    \* ---- test_pipeline.py ----
    tpPc,          \* position in the script
    dbExists,      \* whether duckdb/finance.duckdb exists
    connections,   \* the DuckDB connections made, in order: database and whether open
    tpCon,         \* the name con: index into connections, 0 while unbound
    tpPending,     \* whether an exception is propagating
    tpLog,         \* the build and validation steps attempted, with their outcome
    memory_ok,     \* memory_ok: none, True, False
    file_ok,       \* file_ok: none, True, False
    \* ---- bronze_fetch.py ----
    bfPc,          \* position of main: idle, start, loop, paging, done, crashed
    bfResources,   \* RESOURCES of bronze_fetch.py
    httpxChecksState, \* whether the installed httpx refuses to enter an opened or closed client
    client,        \* the httpx client of main: none, opened, closed
    bfIdx,         \* index into RESOURCES of the for loop (1-based)
    bfPage,        \* page of paged_get
    bfCount,       \* count of fetch_resource
    bfResults,     \* results of main
    bfLog,         \* the fetch_resource calls: resource, state of the client passed, outcome
    \* ---- silver_test.py ----
    svPc,          \* position in the script
    sqlExists,     \* whether scripts/sql/01_silver_build.sql exists
    stdoutEncodes, \* whether the encoding of stdout has the arrow of line 43
    svCon,         \* the name con of build_silver: unbound, open, closed
    qc1,           \* qc1, -1 before it is read
    qc2,           \* qc2, -1 before it is read
    svOut,         \* tags of the lines printed
    svRaised,      \* what ended the try body: none, or the step that raised
    svExit,        \* exit status of the process, -1 while it runs
    \* ---- convert_to_parquet.py ----
    cvPc,          \* position in the script
    resource_dirs, \* resource_dirs: name and JSONL file names of each directory
    cvIdx,         \* index into resource_dirs of the for loop (1-based)
    cvCon,         \* the name con of convert_jsonl_to_parquet: unbound, open, closed
    cvResults,     \* results
    converted,     \* the files read into a table, in order: resource and file name
    cvTotal        \* total_records of the summary, -1 before it is computed

bpVars == <<bpPc, bronzeFiles, stepIdx, running, launched, finished, bpOut, mainRet, bpExit>>
exVars == <<exPc, exArgs, view, serializable, con, exSql, exData, exPayload,
            exStdout, exFile, exStderr, exRaised, exPending, exExit>>
fapVars == <<fapPc, fapTool, toolShape, page, all_data, mcpCalls, fapResult>>
fmVars == <<fmPc, RESOURCES, distExists, rIdx, attempted, results, dirs, files, total_records>>
tpVars == <<tpPc, dbExists, connections, tpCon, tpPending, tpLog, memory_ok, file_ok>>
bfVars == <<bfPc, bfResources, httpxChecksState, client, bfIdx, bfPage, bfCount, bfResults, bfLog>>
svVars == <<svPc, sqlExists, stdoutEncodes, svCon, qc1, qc2, svOut, svRaised, svExit>>
cvVars == <<cvPc, resource_dirs, cvIdx, cvCon, cvResults, converted, cvTotal>>
vars == <<bpVars, exVars, fapVars, fmVars, tpVars, bfVars, svVars, cvVars>>

\* What a build_pipeline step leaves alone: the other scripts.
notBp == <<exVars, fapVars, fmVars, tpVars, bfVars, svVars, cvVars>>
\* What an export_json step leaves alone.
notEx == <<bpVars, fapVars, fmVars, tpVars, bfVars, svVars, cvVars>>
\* What a fetch_all_pages step leaves alone: the other scripts (its caller's
\* state is named in each action).
notFetch == <<bpVars, exVars, tpVars, bfVars, svVars, cvVars>>
\* What a step of test_pipeline.py leaves alone.
notTp == <<bpVars, exVars, fapVars, fmVars, bfVars, svVars, cvVars>>
\* What a step of bronze_fetch.py leaves alone.
notBf == <<bpVars, exVars, fapVars, fmVars, tpVars, svVars, cvVars>>
\* What a step of silver_test.py leaves alone.
notSv == <<bpVars, exVars, fapVars, fmVars, tpVars, bfVars, cvVars>>
\* What a step of convert_to_parquet.py leaves alone.
notCv == <<bpVars, exVars, fapVars, fmVars, tpVars, bfVars, svVars>>

Min(a, b) == IF a <= b THEN a ELSE b

\* ------------------------------------------------------------------
\* Bounds of the model
\* ------------------------------------------------------------------
MaxBronzeFiles == 2
MaxRetCode == 2
MaxRows == 3
MaxLimit == 4
MaxResources == 2
MaxFullPages == 1
MaxQc == 2
MaxDirs == 2
MaxSnapshots == 2

\* ==================================================================
\* scripts/build_pipeline.py
\* ==================================================================

\* Return codes a step subprocess can end with (negative: killed by a signal).
RetCodes == (-1)..MaxRetCode

steps == << [name |-> "Silver", command |-> "python scripts/silver_build.ps1"],
            [name |-> "Gold",   command |-> "python scripts/gold_build.ps1"] >>

BpInit ==
    /\ bpPc = "start"
    /\ bronzeFiles \in 0..MaxBronzeFiles
    /\ stepIdx = 1
    /\ running = {}
    /\ launched = <<>>
    /\ finished = <<>>
    /\ bpOut = <<>>
    /\ mainRet = "none"
    /\ bpExit = -1

\* main, lines 34-43: banner and the Bronze file check.
BpCheckBronze ==
    /\ bpPc = "start"
    /\ bpOut' = bpOut \o << IF bronzeFiles = 0 THEN "WARN no bronze" ELSE "OK bronze found" >>
    /\ bpPc' = "loop"
    /\ UNCHANGED <<bronzeFiles, stepIdx, running, launched, finished, mainRet, bpExit, notBp>>

\* run_step, lines 13-17: header, then subprocess.run starts the child.
RunStepLaunch ==
    /\ bpPc = "loop"
    /\ stepIdx <= Len(steps)
    /\ running' = running \cup {steps[stepIdx].name}
    /\ launched' = Append(launched, steps[stepIdx].name)
    /\ bpOut' = Append(bpOut, "HEADER " \o steps[stepIdx].name)
    /\ bpPc' = "wait"
    /\ UNCHANGED <<bronzeFiles, stepIdx, finished, mainRet, bpExit, notBp>>

\* run_step, lines 20-31: the lines printed for a finished child.
RunStepPrints(name, returncode, hasStdout, hasStderr) ==
    IF returncode = 0
       THEN << "OK " \o name >> \o (IF hasStdout THEN << "stdout" >> ELSE <<>>)
       ELSE << "ERROR " \o name >> \o (IF hasStdout THEN << "STDOUT" >> ELSE <<>>)
                                   \o (IF hasStderr THEN << "STDERR" >> ELSE <<>>)

\* Faulty variant of PipelineStop: the loop goes on after a failed step.
PipelineStopMutContinue(name, printed) ==
    /\ bpOut' = bpOut \o printed
    /\ mainRet' = mainRet
    /\ bpPc' = "sleep"

\* main, lines 53-55: run_step returned False.
PipelineStop(name, printed) ==
    /\ bpOut' = bpOut \o printed \o << "FATAL " \o name >>
    /\ mainRet' = "False"
    /\ bpPc' = "returned"

\* main, lines 57-58: run_step returned True.
PipelineContinue(name, printed) ==
    /\ bpOut' = bpOut \o printed
    /\ mainRet' = mainRet
    /\ bpPc' = "sleep"

\* Faulty variant of RunStepWait: the result is taken without the child having ended.
RunStepWaitMutNoWait(returncode, hasStdout, hasStderr) ==
    /\ bpPc = "wait"
    /\ running' = running
    /\ finished' = Append(finished, [name |-> steps[stepIdx].name, returncode |-> returncode,
                                     stdout |-> hasStdout, stderr |-> hasStderr])
    /\ IF returncode = 0
          THEN PipelineContinue(steps[stepIdx].name,
                                RunStepPrints(steps[stepIdx].name, returncode, hasStdout, hasStderr))
          ELSE PipelineStop(steps[stepIdx].name,
                            RunStepPrints(steps[stepIdx].name, returncode, hasStdout, hasStderr))
    /\ UNCHANGED <<bronzeFiles, stepIdx, launched, bpExit, notBp>>

\* run_step, lines 17-31 with main, lines 52-55: subprocess.run returns once
\* the child has terminated; the return code decides success.
RunStepWait(returncode, hasStdout, hasStderr) ==
    /\ bpPc = "wait"
    /\ running' = running \ {steps[stepIdx].name}
    /\ finished' = Append(finished, [name |-> steps[stepIdx].name, returncode |-> returncode,
                                     stdout |-> hasStdout, stderr |-> hasStderr])
    /\ IF returncode = 0
          THEN PipelineContinue(steps[stepIdx].name,
                                RunStepPrints(steps[stepIdx].name, returncode, hasStdout, hasStderr))
          ELSE PipelineStop(steps[stepIdx].name,
                            RunStepPrints(steps[stepIdx].name, returncode, hasStdout, hasStderr))
    /\ UNCHANGED <<bronzeFiles, stepIdx, launched, bpExit, notBp>>

\* main, line 58 and the loop's next iteration.
BpSleep ==
    /\ bpPc = "sleep"
    /\ stepIdx' = stepIdx + 1
    /\ bpPc' = "loop"
    /\ UNCHANGED <<bronzeFiles, running, launched, finished, bpOut, mainRet, bpExit, notBp>>

\* main, lines 60-68: the loop is exhausted.
BpComplete ==
    /\ bpPc = "loop"
    /\ stepIdx > Len(steps)
    /\ bpOut' = Append(bpOut, "PIPELINE COMPLETE")
    /\ mainRet' = "True"
    /\ bpPc' = "returned"
    /\ UNCHANGED <<bronzeFiles, stepIdx, running, launched, finished, bpExit, notBp>>

\* Faulty variant of BpExit: the exit status ignores main's return value.
BpExitMutAlwaysZero ==
    /\ bpPc = "returned"
    /\ bpExit' = 0
    /\ bpPc' = "exited"
    /\ UNCHANGED <<bronzeFiles, stepIdx, running, launched, finished, bpOut, mainRet, notBp>>

\* __main__, lines 70-72.
BpExit ==
    /\ bpPc = "returned"
    /\ bpExit' = IF mainRet = "True" THEN 0 ELSE 1
    /\ bpPc' = "exited"
    /\ UNCHANGED <<bronzeFiles, stepIdx, running, launched, finished, bpOut, mainRet, notBp>>

BpNext ==
    \/ BpCheckBronze
    \/ RunStepLaunch
    \/ \E rc \in RetCodes, so \in BOOLEAN, se \in BOOLEAN : RunStepWait(rc, so, se)
    \/ BpSleep
    \/ BpComplete
    \/ BpExit

\* ==================================================================
\* scripts/export_json.py
\* ==================================================================

\* --limit when the flag is not given.
DefaultLimit == 2000

\* The command lines the model runs: --view is fixed, --where is absent or a
\* filter on the first column, --order absent or the first column ascending,
\* --out stdout or a file, --limit any value up to MaxLimit or the default.
ArgSets ==
    [ view  : {"gold.v_kpi_month"},
      where : {"", "c1 > 1"},
      order : {"", "c1"},
      out   : {"-", "out.json"},
      limit : (0..MaxLimit) \cup {DefaultLimit} ]

\* The script has not been started.
ExIdle ==
    /\ exPc = "idle"
    /\ exArgs = [view |-> "gold.v_kpi_month", where |-> "", order |-> "", out |-> "-",
                 limit |-> DefaultLimit]
    /\ view = <<>>
    /\ serializable = TRUE
    /\ con = "unbound"
    /\ exSql = <<>>
    /\ exData = <<>>
    /\ exPayload = <<>>
    /\ exStdout = <<>>
    /\ exFile = <<>>
    /\ exStderr = <<>>
    /\ exRaised = "none"
    /\ exPending = "none"
    /\ exExit = -1

\* main entered with a command line; the view holds 0..MaxRows rows whose
\* first column is 1, 2, ..
ExInit ==
    /\ exPc = "start"
    /\ exArgs \in ArgSets
    /\ \E n \in 0..MaxRows : view = [i \in 1..n |-> i]
    /\ serializable \in BOOLEAN
    /\ con = "unbound"
    /\ exSql = <<>>
    /\ exData = <<>>
    /\ exPayload = <<>>
    /\ exStdout = <<>>
    /\ exFile = <<>>
    /\ exStderr = <<>>
    /\ exRaised = "none"
    /\ exPending = "none"
    /\ exExit = -1

\* Faulty variant of BuildSql: the LIMIT clause is left out.
BuildSqlMutNoLimit(a) ==
    << [kw |-> "SELECT * FROM", text |-> a.view] >>
    \o (IF a.where # "" THEN << [kw |-> "WHERE", text |-> a.where] >> ELSE <<>>)
    \o (IF a.order # "" THEN << [kw |-> "ORDER BY", text |-> a.order] >>
                        ELSE << [kw |-> "ORDER BY", text |-> "1 DESC"] >>)

\* Faulty variant of BuildSql: no ordering unless --order is given, and the
\* WHERE clause is added after it.
BuildSqlMutNoDefaultOrder(a) ==
    << [kw |-> "SELECT * FROM", text |-> a.view] >>
    \o (IF a.order # "" THEN << [kw |-> "ORDER BY", text |-> a.order] >> ELSE <<>>)
    \o (IF a.where # "" THEN << [kw |-> "WHERE", text |-> a.where] >> ELSE <<>>)
    \o << [kw |-> "LIMIT", n |-> a.limit] >>

\* main, lines 31-43: the query text, clause by clause.
BuildSql(a) ==
    << [kw |-> "SELECT * FROM", text |-> a.view] >>
    \o (IF a.where # "" THEN << [kw |-> "WHERE", text |-> a.where] >> ELSE <<>>)
    \o (IF a.order # "" THEN << [kw |-> "ORDER BY", text |-> a.order] >>
                        ELSE << [kw |-> "ORDER BY", text |-> "1 DESC"] >>)
    \o << [kw |-> "LIMIT", n |-> a.limit] >>

\* ---- what DuckDB does with such a query (con.execute, fetchall) ----
Clauses(sql, kw) == { i \in 1..Len(sql) : sql[i].kw = kw }

\* Whether first-column value v satisfies the WHERE text.
Matches(text, v) == IF text = "c1 > 1" THEN v > 1 ELSE TRUE

RECURSIVE SortAsc(_)
SortAsc(S) ==
    IF S = {} THEN <<>>
    ELSE LET m == CHOOSE x \in S : \A y \in S : x <= y
         IN << m >> \o SortAsc(S \ {m})

Reverse(q) == [i \in 1..Len(q) |-> q[Len(q) + 1 - i]]

SqlWhere(sql, rows) ==
    IF Clauses(sql, "WHERE") = {} THEN rows
    ELSE LET w == sql[CHOOSE i \in Clauses(sql, "WHERE") : TRUE].text
             Keep(v) == Matches(w, v)
         IN SelectSeq(rows, Keep)

SqlOrder(sql, rows) ==
    IF Clauses(sql, "ORDER BY") = {} THEN rows
    ELSE LET o == sql[CHOOSE i \in Clauses(sql, "ORDER BY") : TRUE].text
             asc == SortAsc({ rows[i] : i \in 1..Len(rows) })
         IN IF o = "1 DESC" THEN Reverse(asc) ELSE asc

SqlLimit(sql, rows) ==
    IF Clauses(sql, "LIMIT") = {} THEN rows
    ELSE LET n == sql[CHOOSE i \in Clauses(sql, "LIMIT") : TRUE].n
         IN SubSeq(rows, 1, Min(n, Len(rows)))

\* main, lines 48-49: result = con.execute(sql); rows = result.fetchall().
Execute(sql, table) == SqlLimit(sql, SqlOrder(sql, SqlWhere(sql, table)))

\* main, lines 50-57: rows become dictionaries keyed by column name.
RowDicts(rows) == [i \in 1..Len(rows) |-> [c1 |-> rows[i]]]

\* main, line 60: json.dumps of a list, as a token sequence "[" e1 "," e2 .. "]".
RECURSIVE DumpsElems(_)
DumpsElems(data) ==
    IF data = <<>> THEN <<>>
    ELSE << [tok |-> "obj", val |-> Head(data)] >>
         \o (IF Len(data) > 1 THEN << [tok |-> ","] >> ELSE <<>>)
         \o DumpsElems(Tail(data))

Dumps(data) == << [tok |-> "["] >> \o DumpsElems(data) \o << [tok |-> "]"] >>

\* The elements of the JSON array a payload text holds.
IsObj(t) == t.tok = "obj"
JsonElems(payload) == SelectSeq(payload, IsObj)

\* main, line 25: parse_args; a bad command line exits with status 2.
ExParseArgs(ok) ==
    /\ exPc = "start"
    /\ IF ok
          THEN /\ exPc' = "connect"
               /\ UNCHANGED <<exRaised, exPending, exExit, exStderr>>
          ELSE /\ exPc' = "ended"
               /\ exRaised' = "parse_args"
               /\ exPending' = "SystemExit"
               /\ exStderr' = Append(exStderr, "usage")
               /\ exExit' = 2
    /\ UNCHANGED <<exArgs, view, serializable, con, exSql, exData, exPayload, exStdout, exFile, notEx>>

\* main, line 29: duckdb.connect.
ExConnect(ok) ==
    /\ exPc = "connect"
    /\ IF ok
          THEN /\ con' = "open"
               /\ exPc' = "query"
               /\ exRaised' = exRaised
          ELSE /\ con' = con
               /\ exPc' = "except"
               /\ exRaised' = "connect"
    /\ UNCHANGED <<exArgs, view, serializable, exSql, exData, exPayload, exStdout, exFile,
                   exStderr, exPending, exExit, notEx>>

\* main, lines 31-57: build the query, run it, turn the rows into dictionaries.
ExQuery(ok) ==
    /\ exPc = "query"
    /\ exSql' = BuildSql(exArgs)
    /\ IF ok
          THEN LET rows == Execute(BuildSql(exArgs), view)
               IN /\ exData' = RowDicts(rows)
                  /\ exStderr' = exStderr \o << "INFO Executing" >>
                                   \o (IF rows = <<>> THEN << "WARN No data" >> ELSE <<>>)
                  /\ exPc' = "dumps"
                  /\ exRaised' = exRaised
          ELSE /\ exData' = exData
               /\ exStderr' = Append(exStderr, "INFO Executing")
               /\ exPc' = "except"
               /\ exRaised' = "query"
    /\ UNCHANGED <<exArgs, view, serializable, con, exPayload, exStdout, exFile,
                   exPending, exExit, notEx>>

\* main, line 60 with decimal_default, lines 9-15: a value json.dumps cannot
\* encode raises TypeError.
ExSerialize ==
    /\ exPc = "dumps"
    /\ IF serializable \/ exData = <<>>
          THEN /\ exPayload' = Dumps(exData)
               /\ exPc' = "output"
               /\ exRaised' = exRaised
          ELSE /\ exPayload' = exPayload
               /\ exPc' = "except"
               /\ exRaised' = "dumps"
    /\ UNCHANGED <<exArgs, view, serializable, con, exSql, exData, exStdout, exFile,
                   exStderr, exPending, exExit, notEx>>

\* main, lines 63-68: print the payload or write it to the --out file.
ExOutput(ok) ==
    /\ exPc = "output"
    /\ IF ok
          THEN /\ IF exArgs.out = "-"
                     THEN /\ exStdout' = Append(exStdout, exPayload)
                          /\ UNCHANGED <<exFile, exStderr>>
                     ELSE /\ exFile' = Append(exFile, exPayload)
                          /\ exStderr' = Append(exStderr, "OK Wrote")
                          /\ exStdout' = exStdout
               /\ exPc' = "finally"
               /\ exRaised' = exRaised
          ELSE /\ UNCHANGED <<exStdout, exFile, exStderr>>
               /\ exPc' = "except"
               /\ exRaised' = "output"
    /\ UNCHANGED <<exArgs, view, serializable, con, exSql, exData, exPayload,
                   exPending, exExit, notEx>>

\* Faulty variant of ExExcept: the handler prints but does not call sys.exit(1).
ExExceptMutSwallow ==
    /\ exPc = "except"
    /\ exStderr' = Append(exStderr, "ERROR Export failed")
    /\ exPending' = exPending
    /\ exPc' = "finally"
    /\ UNCHANGED <<exArgs, view, serializable, con, exSql, exData, exPayload, exStdout,
                   exFile, exRaised, exExit, notEx>>

\* main, lines 70-72: the handler prints the error and calls sys.exit(1).
ExExcept ==
    /\ exPc = "except"
    /\ exStderr' = Append(exStderr, "ERROR Export failed")
    /\ exPending' = "SystemExit"
    /\ exPc' = "finally"
    /\ UNCHANGED <<exArgs, view, serializable, con, exSql, exData, exPayload, exStdout,
                   exFile, exRaised, exExit, notEx>>

\* Faulty variant of ExFinally: the finally block does not close the connection.
ExFinallyMutNoClose ==
    /\ exPc = "finally"
    /\ con' = con
    /\ exPc' = "end"
    /\ UNCHANGED <<exArgs, view, serializable, exSql, exData, exPayload, exStdout, exFile,
                   exStderr, exRaised, exPending, exExit, notEx>>

\* main, lines 73-78: con.close() inside try/except; with con unbound the
\* NameError is swallowed by the bare except and the pending exception of
\* the try statement, if any, goes on propagating.
ExFinally ==
    /\ exPc = "finally"
    /\ con' = IF con = "open" THEN "closed" ELSE con
    /\ exPc' = "end"
    /\ UNCHANGED <<exArgs, view, serializable, exSql, exData, exPayload, exStdout, exFile,
                   exStderr, exRaised, exPending, exExit, notEx>>

\* __main__, lines 80-81: main returned, or SystemExit(1) left it.
ExEnd ==
    /\ exPc = "end"
    /\ exExit' = IF exPending = "none" THEN 0 ELSE 1
    /\ exPc' = "ended"
    /\ UNCHANGED <<exArgs, view, serializable, con, exSql, exData, exPayload, exStdout,
                   exFile, exStderr, exRaised, exPending, notEx>>

ExNext ==
    \/ \E ok \in BOOLEAN : ExParseArgs(ok)
    \/ \E ok \in BOOLEAN : ExConnect(ok)
    \/ \E ok \in BOOLEAN : ExQuery(ok)
    \/ ExSerialize
    \/ \E ok \in BOOLEAN : ExOutput(ok)
    \/ ExExcept
    \/ ExFinally
    \/ ExEnd

BpIdle ==
    /\ bpPc = "idle"
    /\ bronzeFiles = 0
    /\ stepIdx = 1
    /\ running = {}
    /\ launched = <<>>
    /\ finished = <<>>
    /\ bpOut = <<>>
    /\ mainRet = "none"
    /\ bpExit = -1

\* ==================================================================
\* scripts/bronze_fetch_full.py: call_mcp_tool and fetch_all_pages
\* ==================================================================

\* fetch_all_pages, line 51: "perpage": 500.
PerPage == 500
\* fetch_all_pages, line 48: max_pages = 1000  # Safety limit
max_pages == 1000

\* The formats of result["data"] that fetch_all_pages tells apart (lines 65-80):
\* a list, a dict holding the list under customers / invoices / expenses, any
\* other dict (one item), a value that is neither (a string, a number), and
\* no "data" key at all.
ListShapes == {"list", "customers", "invoices", "expenses"}
Shapes == ListShapes \cup {"dict", "scalar", "absent"}

\* Item counts of a list page: empty, one item, one short of full, full.
PageSizes == {0, 1, PerPage - 1, PerPage}

\* What call_mcp_tool can return (lines 31-39): a result with ok set, whose
\* data has a shape and n items, or a result without ok, which may still carry
\* a payload.
OkResults(shape) ==
    [ok : {TRUE}, shape : {shape}, n : PageSizes]
    \cup [ok : {TRUE}, shape : {"dict"}, n : {1}]
    \cup [ok : {TRUE}, shape : {"scalar", "absent"}, n : {0}]
ErrResults(shape) == [ok : {FALSE}, shape : {shape}, n : {0, PerPage}]
McpResults(shape) == OkResults(shape) \cup ErrResults(shape)

\* fetch_all_pages, lines 65-80: the number of items taken from a result.
ItemCount(result) ==
    IF result.shape \in {"customers", "invoices", "expenses"} THEN result.n
    ELSE IF result.shape = "dict" THEN 1
    ELSE IF result.shape = "list" THEN result.n
    ELSE 0

\* Faulty variant of Extend: the page's items are put in front of the list.
ExtendMutPrepend(data, p, n) == << [first |-> p, last |-> p, n |-> n] >> \o data

\* fetch_all_pages, line 86: all_data.extend(items) with the n items of page
\* p. The list is kept run-length coded: a run [first, last, n] stands for
\* items 1..n of page first, then of page first + 1, .. up to page last, so
\* appending the items of the page after a run of equally long pages only
\* moves the run's end.
Extend(data, p, n) ==
    IF data # <<>> /\ data[Len(data)].n = n /\ data[Len(data)].last + 1 = p
       THEN [data EXCEPT ![Len(data)].last = p]
       ELSE Append(data, [first |-> p, last |-> p, n |-> n])

\* len(all_data): the number of items the runs stand for.
RECURSIVE ItemsLen(_)
ItemsLen(data) ==
    IF data = <<>> THEN 0
    ELSE (Head(data).last - Head(data).first + 1) * Head(data).n + ItemsLen(Tail(data))

\* call_mcp_tool, lines 15-30: the bridge is run for tool and page p and
\* answers with result. The log of calls is run-length coded like all_data:
\* [tool, first, last, result] is one call for each page first..last, in
\* order, each answered with result.
LogCall(calls, tool, p, result) ==
    IF /\ calls # <<>>
       /\ calls[Len(calls)].tool = tool
       /\ calls[Len(calls)].result = result
       /\ calls[Len(calls)].last + 1 = p
       THEN [calls EXCEPT ![Len(calls)].last = p]
       ELSE Append(calls, [tool |-> tool, first |-> p, last |-> p, result |-> result])

\* Faulty variant of LoopGuard: while True, no safety limit.
LoopGuardMutNoLimit == TRUE

\* fetch_all_pages, line 50: while page <= max_pages.
LoopGuard == page <= max_pages

\* fetch_all_pages, line 96: the value returned after the loop.
Collected(data, p) ==
    [ok |-> TRUE, data |-> data, total_pages |-> p - 1, total_items |-> ItemsLen(data)]

\* Faulty variant of OnFailedPage: a failed first page only ends the loop.
OnFailedPageMutAlwaysBreak(result) == Collected(all_data, page)

\* fetch_all_pages, lines 56-63: the call failed; the first page's failure is
\* returned as it is, a later one ends the loop.
OnFailedPage(result) == IF page = 1 THEN result ELSE Collected(all_data, page)

\* The value of fapResult before fetch_all_pages returned.
NoResult == [ok |-> FALSE, shape |-> "none", n |-> 0]
\* The entry of mcpCalls for a call that raised instead of returning.
Raised == [ok |-> FALSE, shape |-> "exception", n |-> 0]

\* The script has not called fetch_all_pages.
FapIdle ==
    /\ fapPc = "idle"
    /\ fapTool = "none"
    /\ toolShape = "list"
    /\ page = 1
    /\ all_data = <<>>
    /\ mcpCalls = <<>>
    /\ fapResult = NoResult

\* fetch_all_pages, lines 41-48: entered for a paginated tool.
FapInit ==
    /\ fapPc = "loop"
    /\ fapTool = "payday_get_customers"
    /\ toolShape \in ListShapes
    /\ page = 1
    /\ all_data = <<>>
    /\ mcpCalls = <<>>
    /\ fapResult = NoResult

\* fetch_all_pages, lines 50-96: one iteration of the loop, the call of the
\* tool included; an iteration that ends the loop goes on to the return.
FapIteration(result) ==
    /\ fapPc = "loop"
    /\ LoopGuard
    /\ mcpCalls' = LogCall(mcpCalls, fapTool, page, result)
    /\ IF ~result.ok
          THEN /\ fapResult' = OnFailedPage(result)
               /\ fapPc' = "returned"
               /\ UNCHANGED <<page, all_data>>
          ELSE IF ItemCount(result) = 0
          THEN /\ fapResult' = Collected(all_data, page)
               /\ fapPc' = "returned"
               /\ UNCHANGED <<page, all_data>>
          ELSE /\ all_data' = Extend(all_data, page, ItemCount(result))
               /\ IF ItemCount(result) < PerPage
                     THEN /\ fapResult' = Collected(all_data', page)
                          /\ fapPc' = "returned"
                          /\ page' = page
                     ELSE /\ fapResult' = fapResult
                          /\ fapPc' = "loop"
                          /\ page' = page + 1
    /\ UNCHANGED <<fapTool, toolShape, fmVars, notFetch>>

\* call_mcp_tool, lines 22-39, raising what it does not catch (node missing:
\* FileNotFoundError), or fetch_all_pages, line 56, on a result that is no
\* dict: the exception leaves fetch_all_pages.
FapToolRaises ==
    /\ fapPc = "loop"
    /\ LoopGuard
    /\ mcpCalls' = LogCall(mcpCalls, fapTool, page, Raised)
    /\ fapPc' = "raised"
    /\ UNCHANGED <<fapTool, toolShape, page, all_data, fapResult, fmVars, notFetch>>

\* fetch_all_pages, lines 50 and 96: the loop condition is false.
FapLoopEnd ==
    /\ fapPc = "loop"
    /\ ~LoopGuard
    /\ fapResult' = Collected(all_data, page)
    /\ fapPc' = "returned"
    /\ UNCHANGED <<fapTool, toolShape, page, all_data, mcpCalls, fmVars, notFetch>>

PagesNext ==
    \/ \E result \in McpResults(toolShape) : FapIteration(result)
    \/ FapToolRaises
    \/ FapLoopEnd

\* ==================================================================
\* scripts/bronze_fetch_full.py: fetch_single_item, fetch_resource, main
\* ==================================================================

\* fetch_resource, lines 116-158.
resource_config ==
    [ r \in {"accounts", "account-statement", "company", "customers", "invoices", "expenses",
             "expense-accounts", "expense-payment-types", "payments"} |->
        CASE r = "accounts"              -> [tool |-> "payday_get_accounts", strategy |-> "paginated"]
          [] r = "account-statement"     -> [tool |-> "payday_get_account_statement", strategy |-> "special"]
          [] r = "company"               -> [tool |-> "payday_get_company", strategy |-> "single"]
          [] r = "customers"             -> [tool |-> "payday_get_customers", strategy |-> "paginated"]
          [] r = "invoices"              -> [tool |-> "payday_get_invoices", strategy |-> "paginated"]
          [] r = "expenses"              -> [tool |-> "payday_get_expenses", strategy |-> "paginated"]
          [] r = "expense-accounts"      -> [tool |-> "payday_get_expense_accounts", strategy |-> "single"]
          [] r = "expense-payment-types" -> [tool |-> "payday_get_expense_payment_types", strategy |-> "single"]
          [] r = "payments"              -> [tool |-> "payday_get_payments", strategy |-> "paginated"] ]

\* fetch_resource, lines 160-161: config = resource_config.get(resource).
Known(r) == r \in DOMAIN resource_config

\* The names PAYDAY_RESOURCES is drawn from: one resource of each strategy and
\* one name that is not in resource_config.
ResourceNames == {"accounts", "company", "account-statement", "ledger"}

RECURSIVE SeqsUpTo(_, _)
SeqsUpTo(S, n) ==
    IF n = 0 THEN { <<>> }
    ELSE LET shorter == SeqsUpTo(S, n - 1)
         IN shorter \cup { Append(q, x) : q \in shorter, x \in S }

\* The script has not been started.
FmIdle ==
    /\ fmPc = "idle"
    /\ RESOURCES = <<>>
    /\ distExists = FALSE
    /\ rIdx = 1
    /\ attempted = <<>>
    /\ results = <<>>
    /\ dirs = {}
    /\ files = {}
    /\ total_records = -1

\* Module level, lines 6-8, and the entry of main.
FmInit ==
    /\ fmPc = "start"
    /\ RESOURCES \in SeqsUpTo(ResourceNames, MaxResources)
    /\ distExists \in BOOLEAN
    /\ rIdx = 1
    /\ attempted = <<>>
    /\ results = <<>>
    /\ dirs = {}
    /\ files = {}
    /\ total_records = -1

\* main, lines 216-223.
FmStart ==
    /\ fmPc = "start"
    /\ fmPc' = IF distExists THEN "loop" ELSE "done"
    /\ UNCHANGED <<RESOURCES, distExists, rIdx, attempted, results, dirs, files, total_records,
                   fapVars, notFetch>>

\* The data of a single call as a run-length coded list like all_data: the n
\* items of the one response, which is filed under page 0.
OneCallData(n) == IF n = 0 THEN <<>> ELSE << [first |-> 0, last |-> 0, n |-> n] >>

\* fetch_single_item, lines 103-111: the standard result made of a tool result.
\* A value that is no list is wrapped when it is truthy.
SingleItem(result) ==
    IF ~result.ok THEN result
    ELSE LET n == IF result.shape = "list" THEN result.n
                  ELSE IF result.shape = "absent" THEN 0
                  ELSE 1
         IN [ok |-> TRUE, count |-> n, writable |-> result.shape # "scalar",
             data |-> OneCallData(n)]

\* fetch_resource, lines 174-183: the standard result of the special strategy;
\* len(data) counts the keys of a dict, and iterating it yields the keys.
Special(result) ==
    IF ~result.ok THEN result
    ELSE LET n == IF result.shape \in {"list", "dict"} THEN result.n ELSE 0
         IN [ok |-> TRUE, count |-> n, writable |-> result.shape = "list",
             data |-> OneCallData(n)]

\* fetch_resource, line 171: the result of fetch_all_pages as lines 185-213 read it.
Paginated(result) ==
    IF ~result.ok THEN result
    ELSE [ok |-> TRUE, count |-> result.total_items, writable |-> TRUE,
          data |-> result.data, total_pages |-> result.total_pages]

\* main, lines 230-232: the entry for a fetch that raised.
ExceptionEntry(r) == [resource |-> r, count |-> 0, error |-> "exception"]

\* fetch_resource, lines 185-213: what fetch_resource returns for a fetched
\* result; "raise" when writing the snapshot raises.
Entry(r, res, writeOk) ==
    IF ~res.ok THEN [resource |-> r, count |-> 0, error |-> "error result"]
    ELSE IF res.count = 0 THEN [resource |-> r, count |-> 0]
    ELSE IF ~(writeOk /\ res.writable) THEN ExceptionEntry(r)
    ELSE [resource |-> r, count |-> res.count, jsonl |-> r,
          pages_fetched |-> IF "total_pages" \in DOMAIN res THEN res.total_pages ELSE 1,
          mcp_tool |-> resource_config[r].tool]

\* The items of data without the last one.
AllButLast(data) ==
    LET front == SubSeq(data, 1, Len(data) - 1)
        h == data[Len(data)]
        cut == IF h.n = 1 THEN <<>> ELSE << [first |-> h.last, last |-> h.last, n |-> h.n - 1] >>
    IN IF h.first = h.last THEN front \o cut
       ELSE front \o << [first |-> h.first, last |-> h.last - 1, n |-> h.n] >> \o cut

\* fetch_resource, lines 197-203: the lines written for the items of data, one
\* for each item in the order of data, each with _ingested_at_utc, _source_
\* and _resource_ set; run-length coded as data is.
Lines(r, data) ==
    [i \in 1..Len(data) |->
        [first |-> data[i].first, last |-> data[i].last, n |-> data[i].n,
         ingested |-> TRUE, source |-> "payday-mcp", resource |-> r]]

\* fetch_resource, lines 195-203: the snapshot file after the write loop, a
\* pair of the resource and its lines; open(json_path, "w") empties the file,
\* and a write that raises leaves the lines written before it.
Snapshot(r, res, writeOk, partial) ==
    IF ~res.ok \/ res.count = 0 THEN files
    ELSE LET others == { f \in files : f[1] # r }
         IN IF writeOk /\ res.writable
               THEN others \cup { <<r, Lines(r, res.data)>> }
               ELSE others \cup { <<r, IF partial /\ res.writable
                                          THEN Lines(r, AllButLast(res.data)) ELSE <<>> >> }

\* Faulty variant of MainAppend: an error entry ends the loop.
MainAppendMutStopOnError(entry) ==
    /\ results' = Append(results, entry)
    /\ rIdx' = IF "error" \in DOMAIN entry THEN Len(RESOURCES) + 1 ELSE rIdx + 1
    /\ fmPc' = "loop"

\* main, lines 227-232: the returned entry, or the handler's, is appended and
\* the loop moves on.
MainAppend(entry) ==
    /\ results' = Append(results, entry)
    /\ rIdx' = rIdx + 1
    /\ fmPc' = "loop"

\* Faulty variant of FetchUnknown: the directory is made before the lookup and
\* main appends an entry for the name.
FetchUnknownMutEntry ==
    /\ fmPc = "loop"
    /\ rIdx <= Len(RESOURCES)
    /\ ~Known(RESOURCES[rIdx])
    /\ attempted' = Append(attempted, RESOURCES[rIdx])
    /\ dirs' = dirs \cup {RESOURCES[rIdx]}
    /\ results' = Append(results, [resource |-> RESOURCES[rIdx], count |-> 0])
    /\ rIdx' = rIdx + 1
    /\ UNCHANGED <<fmPc, RESOURCES, distExists, files, total_records,
                   fapVars, notFetch>>

\* main, lines 224-229 with fetch_resource, lines 160-163: a resource that is
\* not in resource_config; fetch_resource returns None, nothing is appended.
FetchUnknown ==
    /\ fmPc = "loop"
    /\ rIdx <= Len(RESOURCES)
    /\ ~Known(RESOURCES[rIdx])
    /\ attempted' = Append(attempted, RESOURCES[rIdx])
    /\ rIdx' = rIdx + 1
    /\ UNCHANGED <<fmPc, RESOURCES, distExists, results, dirs, files, total_records,
                   fapVars, notFetch>>

\* main, lines 224-227 with fetch_resource, lines 160-171: a paginated
\* resource; the directory is made and fetch_all_pages is entered.
FetchPaginatedCall ==
    /\ fmPc = "loop"
    /\ rIdx <= Len(RESOURCES)
    /\ Known(RESOURCES[rIdx])
    /\ resource_config[RESOURCES[rIdx]].strategy = "paginated"
    /\ attempted' = Append(attempted, RESOURCES[rIdx])
    /\ dirs' = dirs \cup {RESOURCES[rIdx]}
    /\ fmPc' = "paginating"
    /\ fapPc' = "loop"
    /\ fapTool' = resource_config[RESOURCES[rIdx]].tool
    /\ page' = 1
    /\ all_data' = <<>>
    /\ fapResult' = NoResult
    /\ UNCHANGED <<RESOURCES, distExists, rIdx, results, files, total_records,
                   toolShape, mcpCalls, notFetch>>

\* fetch_resource, lines 185-213 with main, lines 227-229: fetch_all_pages
\* returned.
FetchPaginatedDone(writeOk, partial) ==
    /\ fmPc = "paginating"
    /\ fapPc = "returned"
    /\ files' = Snapshot(RESOURCES[rIdx], Paginated(fapResult), writeOk, partial)
    /\ MainAppend(Entry(RESOURCES[rIdx], Paginated(fapResult), writeOk))
    /\ fapPc' = "idle"
    /\ UNCHANGED <<RESOURCES, distExists, attempted, dirs, total_records,
                   fapTool, toolShape, page, all_data, mcpCalls, fapResult, notFetch>>

\* main, lines 230-232: an exception left fetch_all_pages and fetch_resource.
FetchPaginatedRaised ==
    /\ fmPc = "paginating"
    /\ fapPc = "raised"
    /\ MainAppend(ExceptionEntry(RESOURCES[rIdx]))
    /\ fapPc' = "idle"
    /\ UNCHANGED <<RESOURCES, distExists, attempted, dirs, files, total_records,
                   fapTool, toolShape, page, all_data, mcpCalls, fapResult, notFetch>>

\* main, lines 224-232 with fetch_resource, lines 160-213, for a resource of
\* the single or the special strategy: one call of the tool, which answers
\* with result or raises, then the snapshot.
FetchOneCall(result, writeOk, partial) ==
    /\ fmPc = "loop"
    /\ rIdx <= Len(RESOURCES)
    /\ Known(RESOURCES[rIdx])
    /\ resource_config[RESOURCES[rIdx]].strategy \in {"single", "special"}
    /\ attempted' = Append(attempted, RESOURCES[rIdx])
    /\ dirs' = dirs \cup {RESOURCES[rIdx]}
    /\ mcpCalls' = LogCall(mcpCalls, resource_config[RESOURCES[rIdx]].tool, 0, result)
    /\ LET r == RESOURCES[rIdx]
           res == IF resource_config[r].strategy = "single"
                     THEN SingleItem(result) ELSE Special(result)
       IN IF result = Raised \/ (resource_config[r].strategy = "special"
                                 /\ result.ok /\ result.shape = "scalar")
             THEN /\ MainAppend(ExceptionEntry(r))
                  /\ files' = files
             ELSE /\ MainAppend(Entry(r, res, writeOk))
                  /\ files' = Snapshot(r, res, writeOk, partial)
    /\ UNCHANGED <<RESOURCES, distExists, total_records,
                   fapPc, fapTool, toolShape, page, all_data, fapResult, notFetch>>

\* main, lines 238-241: total_records += count for each entry.
RECURSIVE SumCounts(_)
SumCounts(entries) ==
    IF entries = <<>> THEN 0 ELSE Head(entries).count + SumCounts(Tail(entries))

\* main, lines 234-249: the loop is over; the summary.
FmSummary ==
    /\ fmPc = "loop"
    /\ rIdx > Len(RESOURCES)
    /\ total_records' = SumCounts(results)
    /\ fmPc' = "done"
    /\ UNCHANGED <<RESOURCES, distExists, rIdx, attempted, results, dirs, files,
                   fapVars, notFetch>>

\* The results the bridge gives in a run of main: for a page of a paginated
\* tool an empty, a short or a full list in the tool's format, or an error
\* result; for a single call also a dict, a value that is no list, and a
\* result without data.
FetchSizes == {0, PerPage - 1, PerPage}
PageResults(shape) == { r \in McpResults(shape) : r.shape = shape /\ r.n \in FetchSizes /\ (r.ok \/ r.n = 0) }
OneCallResults == { r \in McpResults("list") : r.shape # "list" \/ r \in PageResults("list") }

\* main with the steps of fetch_all_pages inside it; at most MaxFullPages
\* full pages are served to one fetch_all_pages call.
FetchNext ==
    \/ FmStart
    \/ FetchUnknown
    \/ FetchPaginatedCall
    \/ \E result \in PageResults(toolShape) :
          /\ fmPc = "paginating"
          /\ (result.ok /\ ItemCount(result) >= PerPage) => page <= MaxFullPages
          /\ FapIteration(result)
    \/ fmPc = "paginating" /\ FapToolRaises
    \/ \E writeOk \in BOOLEAN, partial \in BOOLEAN : FetchPaginatedDone(writeOk, partial)
    \/ FetchPaginatedRaised
    \/ \E result \in OneCallResults \cup {Raised}, writeOk \in BOOLEAN, partial \in BOOLEAN :
          FetchOneCall(result, writeOk, partial)
    \/ FmSummary

\* ==================================================================
\* scripts/test_pipeline.py
\* ==================================================================

\* The databases the script connects to (lines 12, 53, 63).
MemoryDb == ":memory:"
FinanceDb == "duckdb/finance.duckdb"

\* How a build step under a try can go: the SQL file is read and executed, the
\* read raises, or the execute raises.
BuildOutcomes == {"ok", "read raises", "execute raises"}

\* The script has not been started.
TpIdle ==
    /\ tpPc = "idle"
    /\ dbExists = FALSE
    /\ connections = <<>>
    /\ tpCon = 0
    /\ tpPending = FALSE
    /\ tpLog = <<>>
    /\ memory_ok = "none"
    /\ file_ok = "none"

\* Lines 82-84: the script is started; duckdb/finance.duckdb may be there
\* from an earlier build.
TpInit ==
    /\ tpPc = "m_connect"
    /\ dbExists \in BOOLEAN
    /\ connections = <<>>
    /\ tpCon = 0
    /\ tpPending = FALSE
    /\ tpLog = <<>>
    /\ memory_ok = "none"
    /\ file_ok = "none"

\* duckdb.connect(db): a new open connection; the name con is bound to it.
Connect(db) ==
    /\ connections' = Append(connections, [db |-> db, open |-> TRUE])
    /\ tpCon' = Len(connections) + 1

\* Faulty variant of Close: the connection is left as it is.
CloseMutLeak == UNCHANGED connections

\* con.close() (lines 39, 59, 74).
Close == connections' = [connections EXCEPT ![tpCon].open = FALSE]

\* An entry of the log of build and validation steps.
Logged(fn, step, outcome) == Append(tpLog, [fn |-> fn, step |-> step, outcome |-> outcome])

\* test_memory_pipeline, lines 10-12: connect(':memory:') is outside the try;
\* when it raises, the exception leaves the function and ends the script.
TmConnect(ok) ==
    /\ tpPc = "m_connect"
    /\ IF ok THEN Connect(MemoryDb) /\ tpPc' = "m_silver"
             ELSE UNCHANGED <<connections, tpCon>> /\ tpPc' = "crashed"
    /\ UNCHANGED <<dbExists, tpPending, tpLog, memory_ok, file_ok, notTp>>

\* test_memory_pipeline, lines 15-17.
TmSilver(outcome) ==
    /\ tpPc = "m_silver"
    /\ tpLog' = Logged("memory", "silver", outcome)
    /\ tpPending' = (outcome # "ok")
    /\ tpPc' = IF outcome = "ok" THEN "m_gold" ELSE "m_except"
    /\ UNCHANGED <<dbExists, connections, tpCon, memory_ok, file_ok, notTp>>

\* test_memory_pipeline, lines 20-26.
TmGold(outcome) ==
    /\ tpPc = "m_gold"
    /\ tpLog' = Logged("memory", "gold", outcome)
    /\ tpPending' = (outcome # "ok")
    /\ tpPc' = IF outcome = "ok" THEN "m_validate" ELSE "m_except"
    /\ UNCHANGED <<dbExists, connections, tpCon, memory_ok, file_ok, notTp>>

\* test_memory_pipeline, lines 29-33: the two count queries, then return True
\* is reached (the finally block runs before the function returns).
TmValidate(ok) ==
    /\ tpPc = "m_validate"
    /\ tpLog' = Logged("memory", "validate", IF ok THEN "ok" ELSE "execute raises")
    /\ tpPending' = ~ok
    /\ tpPc' = IF ok THEN "m_finally" ELSE "m_except"
    /\ UNCHANGED <<dbExists, connections, tpCon, memory_ok, file_ok, notTp>>

\* test_memory_pipeline, lines 35-37: the handler; return False is reached.
TmExcept ==
    /\ tpPc = "m_except"
    /\ tpPc' = "m_finally"
    /\ UNCHANGED <<dbExists, connections, tpCon, tpPending, tpLog, memory_ok, file_ok, notTp>>

\* test_memory_pipeline, lines 38-39 and line 84: the finally block closes the
\* connection and the function returns; test_sequential_file is called.
TmFinally ==
    /\ tpPc = "m_finally"
    /\ Close
    /\ memory_ok' = (IF tpPending THEN "False" ELSE "True")
    /\ tpPending' = FALSE
    /\ tpPc' = "s_clean"
    /\ UNCHANGED <<dbExists, tpCon, tpLog, file_ok, notTp>>

\* test_sequential_file, lines 43-48: the database file is removed when it is
\* there; unlink is outside the try, so its exception ends the script.
TsClean(ok) ==
    /\ tpPc = "s_clean"
    /\ IF ~dbExists THEN tpPc' = "s_connect1" /\ dbExists' = dbExists
       ELSE IF ok THEN tpPc' = "s_connect1" /\ dbExists' = FALSE
       ELSE tpPc' = "crashed" /\ dbExists' = dbExists
    /\ UNCHANGED <<connections, tpCon, tpPending, tpLog, memory_ok, file_ok, notTp>>

\* test_sequential_file, lines 52-53: the Silver connection; connect creates
\* the database file. A connect that raises is caught by the outer handler.
TsConnectSilver(ok) ==
    /\ tpPc = "s_connect1"
    /\ IF ok THEN Connect(FinanceDb) /\ dbExists' = TRUE /\ tpPc' = "s_silver"
             ELSE UNCHANGED <<connections, tpCon, dbExists>> /\ tpPc' = "s_except"
    /\ UNCHANGED <<tpPending, tpLog, memory_ok, file_ok, notTp>>

\* test_sequential_file, lines 54-57: the Silver build under the inner try.
TsSilver(outcome) ==
    /\ tpPc = "s_silver"
    /\ tpLog' = Logged("file", "silver", outcome)
    /\ tpPending' = (outcome # "ok")
    /\ tpPc' = "s_close1"
    /\ UNCHANGED <<dbExists, connections, tpCon, memory_ok, file_ok, notTp>>

\* test_sequential_file, lines 58-59: the finally block of the Silver step; a
\* pending exception goes on to the outer handler.
TsCloseSilver ==
    /\ tpPc = "s_close1"
    /\ Close
    /\ tpPc' = IF tpPending THEN "s_except" ELSE "s_connect2"
    /\ UNCHANGED <<dbExists, tpCon, tpPending, tpLog, memory_ok, file_ok, notTp>>

\* test_sequential_file, lines 62-63: the Gold connection.
TsConnectGold(ok) ==
    /\ tpPc = "s_connect2"
    /\ IF ok THEN Connect(FinanceDb) /\ tpPc' = "s_gold"
             ELSE UNCHANGED <<connections, tpCon>> /\ tpPc' = "s_except"
    /\ UNCHANGED <<dbExists, tpPending, tpLog, memory_ok, file_ok, notTp>>

\* test_sequential_file, lines 64-66: the Gold build under the inner try.
TsGold(outcome) ==
    /\ tpPc = "s_gold"
    /\ tpLog' = Logged("file", "gold", outcome)
    /\ tpPending' = (outcome # "ok")
    /\ tpPc' = IF outcome = "ok" THEN "s_validate" ELSE "s_close2"
    /\ UNCHANGED <<dbExists, connections, tpCon, memory_ok, file_ok, notTp>>

\* test_sequential_file, lines 68-71: the two count queries of the validation.
TsValidate(ok) ==
    /\ tpPc = "s_validate"
    /\ tpLog' = Logged("file", "validate", IF ok THEN "ok" ELSE "execute raises")
    /\ tpPending' = ~ok
    /\ tpPc' = "s_close2"
    /\ UNCHANGED <<dbExists, connections, tpCon, memory_ok, file_ok, notTp>>

\* test_sequential_file, lines 73-76: the finally block of the Gold step, then
\* return True unless an exception is pending.
TsCloseGold ==
    /\ tpPc = "s_close2"
    /\ Close
    /\ IF tpPending THEN tpPc' = "s_except" /\ file_ok' = file_ok
                    ELSE tpPc' = "results" /\ file_ok' = "True"
    /\ UNCHANGED <<dbExists, tpCon, tpPending, tpLog, memory_ok, notTp>>

\* test_sequential_file, lines 78-80: the outer handler returns False.
TsExcept ==
    /\ tpPc = "s_except"
    /\ file_ok' = "False"
    /\ tpPending' = FALSE
    /\ tpPc' = "results"
    /\ UNCHANGED <<dbExists, connections, tpCon, tpLog, memory_ok, notTp>>

\* Lines 87-94: the results are printed and the script ends.
TpResults ==
    /\ tpPc = "results"
    /\ tpPc' = "ended"
    /\ UNCHANGED <<dbExists, connections, tpCon, tpPending, tpLog, memory_ok, file_ok, notTp>>

TpNext ==
    \/ \E ok \in BOOLEAN : TmConnect(ok)
    \/ \E outcome \in BuildOutcomes : TmSilver(outcome)
    \/ \E outcome \in BuildOutcomes : TmGold(outcome)
    \/ \E ok \in BOOLEAN : TmValidate(ok)
    \/ TmExcept
    \/ TmFinally
    \/ \E ok \in BOOLEAN : TsClean(ok)
    \/ \E ok \in BOOLEAN : TsConnectSilver(ok)
    \/ \E outcome \in BuildOutcomes : TsSilver(outcome)
    \/ TsCloseSilver
    \/ \E ok \in BOOLEAN : TsConnectGold(ok)
    \/ \E outcome \in BuildOutcomes : TsGold(outcome)
    \/ \E ok \in BOOLEAN : TsValidate(ok)
    \/ TsCloseGold
    \/ TsExcept
    \/ TpResults

\* ==================================================================
\* scripts/bronze_fetch.py
\* ==================================================================

\* fetch_resource, lines 54-59: the resources that have a route.
routes == {"accounts", "customers", "invoices", "transactions"}

\* The names PAYDAY_RESOURCES is drawn from for this script: two with a route
\* and one without.
BfResourceNames == {"accounts", "invoices", "ledger"}

\* What one client.get of paged_get can give (lines 39-42): a page of n items,
\* or an exception (a transport error, raise_for_status, a closed client).
BfPages == [ok : {TRUE}, n : {0, PerPage - 1, PerPage}] \cup { [ok |-> FALSE, n |-> 0] }

\* The script has not been started.
BfIdle ==
    /\ bfPc = "idle"
    /\ bfResources = <<>>
    /\ httpxChecksState = TRUE
    /\ client = "none"
    /\ bfIdx = 1
    /\ bfPage = 1
    /\ bfCount = 0
    /\ bfResults = <<>>
    /\ bfLog = <<>>

\* Module level, lines 8-16. The installed httpx either keeps a client's
\* state and refuses to enter a client that is not unopened (RuntimeError,
\* "Cannot open a client instance more than once"), as the releases with
\* ClientState do, or enters any client and closes it at the block's end.
BfInit ==
    /\ bfPc = "start"
    /\ bfResources \in SeqsUpTo(BfResourceNames, MaxResources)
    /\ httpxChecksState \in BOOLEAN
    /\ client = "none"
    /\ bfIdx = 1
    /\ bfPage = 1
    /\ bfCount = 0
    /\ bfResults = <<>>
    /\ bfLog = <<>>

\* main, lines 97-100: get_token, which raises without credentials or when the
\* token request fails, then `with httpx.Client(..) as client` opens the client.
BfStart(tokenOk) ==
    /\ bfPc = "start"
    /\ IF tokenOk THEN client' = "opened" /\ bfPc' = "loop"
                  ELSE client' = client /\ bfPc' = "crashed"
    /\ UNCHANGED <<bfResources, httpxChecksState, bfIdx, bfPage, bfCount, bfResults, bfLog, notBf>>

\* An entry of the log of fetch_resource calls: the resource, the state of the
\* client that was passed, and how the call ended.
Call(r, outcome) == [resource |-> r, client |-> client, outcome |-> outcome]

\* The value None as an element of results.
None == [resource |-> "None", count |-> 0]

\* main, lines 101-103 with fetch_resource, lines 60-63: no route; None is
\* returned and appended.
BfFetchUnknown ==
    /\ bfPc = "loop"
    /\ bfIdx <= Len(bfResources)
    /\ bfResources[bfIdx] \notin routes
    /\ bfResults' = Append(bfResults, None)
    /\ bfLog' = Append(bfLog, Call(bfResources[bfIdx], "no route"))
    /\ bfIdx' = bfIdx + 1
    /\ UNCHANGED <<bfPc, bfResources, httpxChecksState, client, bfPage, bfCount, notBf>>

\* fetch_resource, line 71: `with client as c` calls client.__enter__() on the
\* client main has already opened.
EnterClient ==
    IF httpxChecksState /\ client \in {"opened", "closed"} THEN "RuntimeError" ELSE "entered"

\* fetch_resource, lines 71-77: leaving the with block calls
\* client.__exit__(), which closes the client.
ExitClient == "closed"

\* main, lines 101-105 with fetch_resource, lines 60-71: a resource with a
\* route; the with statement is entered, or its RuntimeError goes to main's
\* handler, which appends nothing.
BfFetchEnter ==
    /\ bfPc = "loop"
    /\ bfIdx <= Len(bfResources)
    /\ bfResources[bfIdx] \in routes
    /\ IF EnterClient = "RuntimeError"
          THEN /\ bfLog' = Append(bfLog, Call(bfResources[bfIdx], "client refused"))
               /\ bfIdx' = bfIdx + 1
               /\ bfPc' = "loop"
          ELSE /\ bfLog' = Append(bfLog, Call(bfResources[bfIdx], "running"))
               /\ bfIdx' = bfIdx
               /\ bfPc' = "paging"
    /\ bfPage' = 1
    /\ bfCount' = 0
    /\ UNCHANGED <<bfResources, httpxChecksState, client, bfResults, notBf>>

\* The log with the outcome of the call in progress set.
Ended(outcome) == [bfLog EXCEPT ![Len(bfLog)].outcome = outcome]

\* paged_get, lines 38-49, driven by the loop of fetch_resource, lines 72-77:
\* one request. A full page is followed by the next request; an exception, an
\* empty or a short page ends the with block, which closes the client, and
\* then fetch_resource, lines 79-94: no records, or the conversion to Parquet,
\* which may raise; main, lines 103-105, appends what is returned.
BfPageStep(result, convertOk) ==
    /\ bfPc = "paging"
    /\ IF result.ok /\ result.n = PerPage
          THEN /\ bfPage <= MaxFullPages
               /\ bfPage' = bfPage + 1
               /\ bfCount' = bfCount + result.n
               /\ UNCHANGED <<bfPc, client, bfIdx, bfResults, bfLog>>
          ELSE /\ client' = ExitClient
               /\ bfCount' = bfCount + result.n
               /\ bfPage' = bfPage
               /\ bfIdx' = bfIdx + 1
               /\ bfPc' = "loop"
               /\ IF ~result.ok
                     THEN bfLog' = Ended("request raised") /\ bfResults' = bfResults
                  ELSE IF bfCount' = 0
                     THEN /\ bfLog' = Ended("no records")
                          /\ bfResults' = Append(bfResults, [resource |-> bfResources[bfIdx], count |-> 0])
                  ELSE IF ~convertOk
                     THEN bfLog' = Ended("conversion raised") /\ bfResults' = bfResults
                  ELSE /\ bfLog' = Ended("ok")
                       /\ bfResults' = Append(bfResults, [resource |-> bfResources[bfIdx],
                                                            count |-> bfCount'])
    /\ UNCHANGED <<bfResources, httpxChecksState, notBf>>

\* main, lines 99-106: the loop is over, the results are printed and main's
\* with block is left, which closes the client.
BfFinish ==
    /\ bfPc = "loop"
    /\ bfIdx > Len(bfResources)
    /\ client' = "closed"
    /\ bfPc' = "done"
    /\ UNCHANGED <<bfResources, httpxChecksState, bfIdx, bfPage, bfCount, bfResults, bfLog, notBf>>

BfNext ==
    \/ \E tokenOk \in BOOLEAN : BfStart(tokenOk)
    \/ BfFetchUnknown
    \/ BfFetchEnter
    \/ \E result \in BfPages, convertOk \in BOOLEAN : BfPageStep(result, convertOk)
    \/ BfFinish

\* ==================================================================
\* scripts/silver_test.py
\* ==================================================================

\* The counts a quality-check view can hold.
QcCounts == 0..MaxQc

\* The script has not been started.
SvIdle ==
    /\ svPc = "idle"
    /\ sqlExists = FALSE
    /\ stdoutEncodes = TRUE
    /\ svCon = "unbound"
    /\ qc1 = -1
    /\ qc2 = -1
    /\ svOut = <<>>
    /\ svRaised = "none"
    /\ svExit = -1

\* The script is started: scripts/sql/01_silver_build.sql may be missing, and
\* the encoding of stdout may lack the arrow that line 43 prints.
SvInit ==
    /\ svPc = "import"
    /\ sqlExists \in BOOLEAN
    /\ stdoutEncodes \in BOOLEAN
    /\ svCon = "unbound"
    /\ qc1 = -1
    /\ qc2 = -1
    /\ svOut = <<>>
    /\ svRaised = "none"
    /\ svExit = -1

\* Lines 7-12: import duckdb; without the module the script exits with 1.
SvImport(ok) ==
    /\ svPc = "import"
    /\ IF ok
          THEN /\ svOut' = Append(svOut, "INFO DuckDB module found")
               /\ svPc' = "sql"
               /\ UNCHANGED <<svRaised, svExit>>
          ELSE /\ svOut' = Append(svOut, "ERROR DuckDB not installed")
               /\ svRaised' = "import"
               /\ svExit' = 1
               /\ svPc' = "ended"
    /\ UNCHANGED <<sqlExists, stdoutEncodes, svCon, qc1, qc2, notSv>>

\* build_silver, lines 18-23: the SQL file. sys.exit(1) for a missing file
\* raises SystemExit, which `except Exception` does not catch; read_text may
\* raise.
SvReadSql(readOk) ==
    /\ svPc = "sql"
    /\ IF ~sqlExists
          THEN /\ svOut' = Append(svOut, "ERROR SQL file not found")
               /\ svRaised' = "sql missing"
               /\ svExit' = 1
               /\ svPc' = "ended"
          ELSE /\ svRaised' = (IF readOk THEN svRaised ELSE "read")
               /\ svPc' = (IF readOk THEN "connect" ELSE "except")
               /\ UNCHANGED <<svOut, svExit>>
    /\ UNCHANGED <<sqlExists, stdoutEncodes, svCon, qc1, qc2, notSv>>

\* build_silver, lines 26-27: duckdb.connect.
SvConnect(ok) ==
    /\ svPc = "connect"
    /\ svOut' = Append(svOut, "INFO Connecting")
    /\ IF ok THEN svCon' = "open" /\ svPc' = "build" /\ svRaised' = svRaised
             ELSE svCon' = svCon /\ svPc' = "except" /\ svRaised' = "connect"
    /\ UNCHANGED <<sqlExists, stdoutEncodes, qc1, qc2, svExit, notSv>>

\* build_silver, line 28: con.execute(sql), the build.
SvBuild(ok) ==
    /\ svPc = "build"
    /\ IF ok THEN svPc' = "counts" /\ svRaised' = svRaised
             ELSE svPc' = "except" /\ svRaised' = "build"
    /\ UNCHANGED <<sqlExists, stdoutEncodes, svCon, qc1, qc2, svOut, svExit, notSv>>

\* build_silver, lines 31-36: the record counts.
SvCounts(ok) ==
    /\ svPc = "counts"
    /\ IF ok THEN /\ svOut' = svOut \o << "SILVER LAYER SUMMARY", "Accounts", "Transactions" >>
                  /\ svPc' = "qc"
                  /\ svRaised' = svRaised
             ELSE /\ svOut' = Append(svOut, "SILVER LAYER SUMMARY")
                  /\ svPc' = "except"
                  /\ svRaised' = "count"
    /\ UNCHANGED <<sqlExists, stdoutEncodes, svCon, qc1, qc2, svExit, notSv>>

\* build_silver, lines 39-44: the counts of the two quality-check views are
\* read and printed; the first of the two lines has a non-ASCII arrow, and
\* print raises UnicodeEncodeError when stdout cannot encode it.
SvQc(ok, a, b) ==
    /\ svPc = "qc"
    /\ IF ~ok
          THEN /\ svOut' = Append(svOut, "QUALITY CHECKS")
               /\ svPc' = "except"
               /\ svRaised' = "count"
               /\ UNCHANGED <<qc1, qc2>>
          ELSE /\ qc1' = a
               /\ qc2' = b
               /\ IF stdoutEncodes
                     THEN /\ svOut' = svOut \o << "QUALITY CHECKS", "Orphan rows", "Missing fields" >>
                          /\ svPc' = "orphans"
                          /\ svRaised' = svRaised
                     ELSE /\ svOut' = Append(svOut, "QUALITY CHECKS")
                          /\ svPc' = "except"
                          /\ svRaised' = "print"
    /\ UNCHANGED <<sqlExists, stdoutEncodes, svCon, svExit, notSv>>

\* Faulty variant of SvOrphans: orphan rows end the build with status 1.
SvOrphansMutGate(ok) ==
    /\ svPc = "orphans"
    /\ IF qc1 > 0
          THEN /\ svOut' = Append(svOut, "WARN orphan transactions")
               /\ svRaised' = "orphans"
               /\ svPc' = "except"
          ELSE /\ svPc' = "missing"
               /\ UNCHANGED <<svOut, svRaised>>
    /\ UNCHANGED <<sqlExists, stdoutEncodes, svCon, qc1, qc2, svExit, notSv>>

\* build_silver, lines 46-53: orphan rows give a warning and a sample, whose
\* query is under a try of its own.
SvOrphans(ok) ==
    /\ svPc = "orphans"
    /\ svOut' = IF qc1 > 0
                   THEN svOut \o << "WARN orphan transactions" >>
                        \o (IF ok THEN << >> ELSE << "Could not fetch orphan details" >>)
                   ELSE svOut
    /\ svPc' = "missing"
    /\ UNCHANGED <<sqlExists, stdoutEncodes, svCon, qc1, qc2, svRaised, svExit, notSv>>

\* build_silver, lines 55-62: missing fields give a warning and a breakdown,
\* whose query is under a try of its own.
SvMissing(ok) ==
    /\ svPc = "missing"
    /\ svOut' = IF qc2 > 0
                   THEN svOut \o << "WARN missing fields" >>
                        \o (IF ok THEN << >> ELSE << "Could not fetch missing field details" >>)
                   ELSE svOut
    /\ svPc' = "summaries"
    /\ UNCHANGED <<sqlExists, stdoutEncodes, svCon, qc1, qc2, svRaised, svExit, notSv>>

\* build_silver, lines 65-86: account types and date range, each under a try
\* of its own.
SvSummaries(acctOk, datesOk) ==
    /\ svPc = "summaries"
    /\ svOut' = svOut \o << "ACCOUNT TYPES" >>
                  \o (IF acctOk THEN << >> ELSE << "Could not fetch account summary" >>)
                  \o << "TRANSACTION DATE RANGE" >>
                  \o (IF datesOk THEN << "Date range" >> ELSE << "Could not fetch date range" >>)
    /\ svPc' = "close"
    /\ UNCHANGED <<sqlExists, stdoutEncodes, svCon, qc1, qc2, svRaised, svExit, notSv>>

\* build_silver, lines 88-89 and the end of the script: close, the success
\* line, exit status 0.
SvClose ==
    /\ svPc = "close"
    /\ svCon' = "closed"
    /\ svOut' = Append(svOut, "SUCCESS Silver layer built")
    /\ svExit' = 0
    /\ svPc' = "ended"
    /\ UNCHANGED <<sqlExists, stdoutEncodes, qc1, qc2, svRaised, notSv>>

\* build_silver, lines 91-95: the handler prints the error and the traceback
\* and exits with 1; the connection is not closed here.
SvExcept ==
    /\ svPc = "except"
    /\ svOut' = Append(svOut, "ERROR Silver build failed")
    /\ svExit' = 1
    /\ svPc' = "ended"
    /\ UNCHANGED <<sqlExists, stdoutEncodes, svCon, qc1, qc2, svRaised, notSv>>

SvNext ==
    \/ \E ok \in BOOLEAN : SvImport(ok)
    \/ \E readOk \in BOOLEAN : SvReadSql(readOk)
    \/ \E ok \in BOOLEAN : SvConnect(ok)
    \/ \E ok \in BOOLEAN : SvBuild(ok)
    \/ \E ok \in BOOLEAN : SvCounts(ok)
    \/ \E ok \in BOOLEAN, a \in QcCounts, b \in QcCounts : SvQc(ok, a, b)
    \/ \E ok \in BOOLEAN : SvOrphans(ok)
    \/ \E ok \in BOOLEAN : SvMissing(ok)
    \/ \E acctOk \in BOOLEAN, datesOk \in BOOLEAN : SvSummaries(acctOk, datesOk)
    \/ SvClose
    \/ SvExcept

\* ==================================================================
\* scripts/convert_to_parquet.py
\* ==================================================================

\* The timestamps of snapshot file names, snapshot_<TS>.jsonl, as digit strings
\* of one width (bronze_fetch_full.py, line 8, gives TS a fixed format).
SnapshotNames == { <<0, 9>>, <<1, 0>>, <<1, 9>> }

\* The resource directories the model puts under data/bronze/payday.
DirNames == {"accounts", "customers", "account-statement"}

\* a <= b for two strings of one length, compared as Python compares str:
\* by the first position in which they differ.
RECURSIVE NameLeq(_, _)
NameLeq(a, b) ==
    IF a = <<>> THEN TRUE
    ELSE IF Head(a) # Head(b) THEN Head(a) < Head(b)
    ELSE NameLeq(Tail(a), Tail(b))

\* Faulty variant of Latest: the file with the least name is taken.
LatestMutOldest(jsonl_files) ==
    CHOOSE f \in jsonl_files : \A g \in jsonl_files : NameLeq(f, g)

\* convert_jsonl_to_parquet, line 23: max(jsonl_files, key=lambda f: f.name).
Latest(jsonl_files) ==
    CHOOSE f \in jsonl_files : \A g \in jsonl_files : NameLeq(g, f)

\* Lines 30-31: the table is named temp_<resource_name>, unquoted; a name with
\* a hyphen is no SQL identifier and the CREATE TABLE statement raises.
IsIdentifier(resource_name) == resource_name # "account-statement"

\* The sets of at most n elements of S.
UpTo(S, n) == { T \in SUBSET S : Cardinality(T) <= n }

\* The lists of at most n directories with different names, in any order (the
\* order of iterdir is not specified), each with at most MaxSnapshots JSONL files.
RECURSIVE DirLists(_)
DirLists(n) ==
    IF n = 0 THEN { <<>> }
    ELSE LET shorter == DirLists(n - 1)
         IN shorter \cup
            { Append(q, [name |-> d, jsonl |-> T]) :
                q \in { x \in shorter : Len(x) = n - 1 },
                d \in DirNames, T \in UpTo(SnapshotNames, MaxSnapshots) }

Distinct(q) == \A i, j \in 1..Len(q) : i # j => q[i].name # q[j].name

\* The script has not been started.
CvIdle ==
    /\ cvPc = "idle"
    /\ resource_dirs = <<>>
    /\ cvIdx = 1
    /\ cvCon = "unbound"
    /\ cvResults = <<>>
    /\ converted = <<>>
    /\ cvTotal = -1

\* Line 63: the script is started in a working directory that holds some
\* resource directories under data/bronze/payday.
CvInit ==
    /\ cvPc = "start"
    /\ resource_dirs \in { q \in DirLists(MaxDirs) : Distinct(q) }
    /\ cvIdx = 1
    /\ cvCon = "unbound"
    /\ cvResults = <<>>
    /\ converted = <<>>
    /\ cvTotal = -1

\* convert_jsonl_to_parquet, lines 6-12: the directories are listed, which
\* raises when data/bronze/payday is missing, and the connection is made.
CvStart(listOk, connectOk) ==
    /\ cvPc = "start"
    /\ IF listOk /\ connectOk
          THEN cvCon' = "open" /\ cvPc' = "loop"
          ELSE cvCon' = cvCon /\ cvPc' = "crashed"
    /\ UNCHANGED <<resource_dirs, cvIdx, cvResults, converted, cvTotal, notCv>>

\* convert_jsonl_to_parquet, lines 14-21: a directory without JSONL files is
\* passed over with a warning.
CvSkip ==
    /\ cvPc = "loop"
    /\ cvIdx <= Len(resource_dirs)
    /\ resource_dirs[cvIdx].jsonl = {}
    /\ cvIdx' = cvIdx + 1
    /\ UNCHANGED <<cvPc, resource_dirs, cvCon, cvResults, converted, cvTotal, notCv>>

\* How the conversion of a file can go (lines 30-41): it is read, counted and
\* written, or read_json_auto raises, or the COPY raises.
Conversions == {"ok", "read raises", "copy raises"}

\* Line 36: the record counts of a converted file, none or some.
RecordCounts == {0, MaxRows}

\* convert_jsonl_to_parquet, lines 14-57: a directory with JSONL files; the
\* latest is converted; an exception gives an error entry and the loop goes on.
CvConvert(outcome, count) ==
    /\ cvPc = "loop"
    /\ cvIdx <= Len(resource_dirs)
    /\ resource_dirs[cvIdx].jsonl # {}
    /\ LET resource_name == resource_dirs[cvIdx].name
           latest_jsonl == Latest(resource_dirs[cvIdx].jsonl)
       IN IF ~IsIdentifier(resource_name)
             THEN /\ converted' = converted
                  /\ cvResults' = Append(cvResults,
                        [resource |-> resource_name, count |-> 0, error |-> "syntax error"])
          ELSE IF outcome = "ok"
             THEN /\ converted' = Append(converted, [resource |-> resource_name, jsonl |-> latest_jsonl])
                  /\ cvResults' = Append(cvResults,
                        [resource |-> resource_name, count |-> count, jsonl |-> latest_jsonl,
                         parquet |-> resource_name \o "_latest.parquet"])
          ELSE /\ converted' = IF outcome = "copy raises"
                                  THEN Append(converted, [resource |-> resource_name,
                                                          jsonl |-> latest_jsonl])
                                  ELSE converted
               /\ cvResults' = Append(cvResults,
                     [resource |-> resource_name, count |-> 0, error |-> outcome])
    /\ cvIdx' = cvIdx + 1
    /\ UNCHANGED <<cvPc, resource_dirs, cvCon, cvTotal, notCv>>

\* convert_jsonl_to_parquet, lines 59-60: after the loop the connection is
\* closed and results is returned.
CvClose ==
    /\ cvPc = "loop"
    /\ cvIdx > Len(resource_dirs)
    /\ cvCon' = "closed"
    /\ cvPc' = "returned"
    /\ UNCHANGED <<resource_dirs, cvIdx, cvResults, converted, cvTotal, notCv>>

\* Lines 66-76: the summary; total_records is the sum of the counts.
CvSummary ==
    /\ cvPc = "returned"
    /\ cvTotal' = SumCounts(cvResults)
    /\ cvPc' = "ended"
    /\ UNCHANGED <<resource_dirs, cvIdx, cvCon, cvResults, converted, notCv>>

CvNext ==
    \/ \E listOk \in BOOLEAN, connectOk \in BOOLEAN : CvStart(listOk, connectOk)
    \/ CvSkip
    \/ \E outcome \in Conversions, count \in RecordCounts : CvConvert(outcome, count)
    \/ CvClose
    \/ CvSummary

\* test_pipeline.py run as a script.
TestPipelineInit == TpInit /\ BpIdle /\ ExIdle /\ FapIdle /\ FmIdle /\ BfIdle /\ SvIdle /\ CvIdle

SpecTestPipeline == TestPipelineInit /\ [][TpNext]_vars

\* bronze_fetch.py run as a script.
BronzeFetchInit == BfInit /\ BpIdle /\ ExIdle /\ FapIdle /\ FmIdle /\ TpIdle /\ SvIdle /\ CvIdle

SpecBronzeFetch == BronzeFetchInit /\ [][BfNext]_vars

\* silver_test.py run as a script.
SilverTestInit == SvInit /\ BpIdle /\ ExIdle /\ FapIdle /\ FmIdle /\ TpIdle /\ BfIdle /\ CvIdle

SpecSilverTest == SilverTestInit /\ [][SvNext]_vars

\* convert_to_parquet.py run as a script.
ConvertInit == CvInit /\ BpIdle /\ ExIdle /\ FapIdle /\ FmIdle /\ TpIdle /\ BfIdle /\ SvIdle

SpecConvert == ConvertInit /\ [][CvNext]_vars

BuildInit == BpInit /\ ExIdle /\ FapIdle /\ FmIdle /\ TpIdle /\ BfIdle /\ SvIdle /\ CvIdle

SpecBuild == BuildInit /\ [][BpNext]_vars

ExportInit == ExInit /\ BpIdle /\ FapIdle /\ FmIdle /\ TpIdle /\ BfIdle /\ SvIdle /\ CvIdle

PagesInit == FapInit /\ BpIdle /\ ExIdle /\ FmIdle /\ TpIdle /\ BfIdle /\ SvIdle /\ CvIdle

SpecPages == PagesInit /\ [][PagesNext]_vars

\* bronze_fetch_full.py run from main; the bridge answers list pages in one format.
FetchInit ==
    /\ FmInit
    /\ fapPc = "idle" /\ fapTool = "none" /\ toolShape \in ListShapes /\ page = 1
    /\ all_data = <<>> /\ mcpCalls = <<>> /\ fapResult = NoResult
    /\ BpIdle /\ ExIdle /\ TpIdle /\ BfIdle /\ SvIdle /\ CvIdle

SpecFetch == FetchInit /\ [][FetchNext]_vars

\* ==================================================================
\* bronze_fetch_full.py, then build_pipeline.py, on one working directory
\* ==================================================================

\* build_pipeline.main, line 38: the directory that is globbed.
BronzePayday == << "data", "bronze", "payday" >>

\* fetch_resource, lines 165-167: json_path, BRONZE_DIR / "payday" / resource /
\* snapshot_<TS>.jsonl, as directory, file name and extension.
SnapshotPath(r) == [dir |-> BronzePayday \o << r >>, name |-> "snapshot_TS", ext |-> "jsonl"]

\* The files of the working directory after the fetch: the snapshots written.
FileSystem == { SnapshotPath(f[1]) : f \in files }

\* pathlib.Path(dir).glob("*.<ext>"): the files with this extension that are
\* directly in dir; the pattern has no directory part, files further down do
\* not match.
Glob(fs, dir, ext) == { p \in fs : p.dir = dir /\ p.ext = ext }

\* build_pipeline.py is started in the working directory the fetch has left;
\* main, line 38: what the glob of the Bronze check yields there.
BpStartAfterFetch ==
    /\ fmPc = "done"
    /\ bpPc = "idle"
    /\ bpPc' = "start"
    /\ bronzeFiles' = Cardinality(Glob(FileSystem, BronzePayday, "jsonl"))
    /\ UNCHANGED <<stepIdx, running, launched, finished, bpOut, mainRet, bpExit, notBp>>

IngestBuildNext ==
    \/ FetchNext
    \/ BpStartAfterFetch
    \/ BpNext

\* "Run script A, then script B": the fetch, then the pipeline build.
SpecIngestBuild == FetchInit /\ [][IngestBuildNext]_vars

\* The interpreter keeps running and every call of the tool comes back.
SpecPagesFair == SpecPages /\ WF_vars(PagesNext)

SpecExport == ExportInit /\ [][ExNext]_vars

\* ------------------------------------------------------------------
\* Claims about build_pipeline.py (checked under SpecBuild)
\* ------------------------------------------------------------------

\* C1: the steps are launched in the fixed order Silver, Gold; a step is
\* launched only after every earlier step has finished with return code 0,
\* so Gold never starts before Silver or after a failed Silver.
C1_GoldOnlyAfterSilverOk ==
    /\ Len(launched) <= Len(steps)
    /\ \A i \in 1..Len(launched) :
          /\ launched[i] = steps[i].name
          /\ \A j \in 1..(i - 1) :
                /\ j <= Len(finished)
                /\ finished[j].name = steps[j].name
                /\ finished[j].returncode = 0

C1_Witness == launched = << "Silver", "Gold" >> /\ "Gold" \in running

\* C2: at most one step subprocess is alive at any time, and it is the one
\* launched last: every earlier step's subprocess has terminated.
C2_OneSubprocessAtATime ==
    /\ Cardinality(running) <= 1
    /\ \A i \in 1..Len(launched) : launched[i] \in running => i = Len(launched)
    /\ bpPc # "wait" => running = {}

C2_Witness == running = {"Gold"} /\ Len(finished) = 1

ExOpened == exRaised \notin {"parse_args", "connect"} /\ exPc \notin {"start", "connect"}

\* C4: on every path out of main the connection, if it was opened, has been
\* closed when the finally block is left, and the close attempt itself
\* raises nothing out of main (only the handler's SystemExit may be pending).
C4_ConnectionClosed ==
    exPc \in {"end", "ended"} =>
        /\ con # "open"
        /\ ExOpened => con = "closed"
        /\ exPending \in {"none", "SystemExit"}

C4_Witness == exPc = "ended" /\ exRaised = "query" /\ con = "closed"

\* C5: an exception while connecting, querying, serializing or writing ends
\* the process with status 1 after an error line on stderr; without an
\* exception the status is 0 and the payload was emitted exactly once, to
\* stdout for --out "-" and to the file otherwise.
C5_ExitAndEmit ==
    (exPc = "ended" /\ exRaised # "parse_args") =>
        IF exRaised # "none"
           THEN /\ exExit = 1
                /\ exStderr # <<>>
                /\ exStderr[Len(exStderr)] = "ERROR Export failed"
           ELSE /\ exExit = 0
                /\ exPayload = Dumps(exData)
                /\ IF exArgs.out = "-"
                      THEN exStdout = << exPayload >> /\ exFile = <<>>
                      ELSE exFile = << exPayload >> /\ exStdout = <<>>

C5_Witness == exPc = "ended" /\ exRaised = "dumps" /\ exExit = 1

\* The number of rows of the view that satisfy --where (all when it is empty).
MatchingRows ==
    Cardinality({ i \in 1..Len(view) : exArgs.where = "" \/ Matches(exArgs.where, view[i]) })

\* The payloads that left the process.
Emitted == exStdout \o exFile

\* C6: a successful export emits a JSON array of min(limit, matching rows)
\* elements, never more than --limit; an empty result is emitted as the
\* empty array with exit status 0.
C6_RowLimit ==
    (exPc = "ended" /\ exRaised = "none") =>
        /\ Len(Emitted) = 1
        /\ Len(JsonElems(Emitted[1])) = Min(exArgs.limit, MatchingRows)
        /\ Len(JsonElems(Emitted[1])) <= exArgs.limit
        /\ Min(exArgs.limit, MatchingRows) = 0 =>
              Emitted[1] = << [tok |-> "["], [tok |-> "]"] >> /\ exExit = 0

C6_Witness ==
    /\ exPc = "ended"
    /\ exRaised = "none"
    /\ exArgs.limit = 2
    /\ MatchingRows = 3
    /\ Len(JsonElems(Emitted[1])) = 2

\* ------------------------------------------------------------------
\* Claims about fetch_all_pages (checked under SpecPages, C8 under SpecPagesFair)
\* ------------------------------------------------------------------

\* The number of calls made so far.
RECURSIVE CallCount(_)
CallCount(calls) ==
    IF calls = <<>> THEN 0
    ELSE (Head(calls).last - Head(calls).first + 1) + CallCount(Tail(calls))

\* The calls were for pages 1, 2, 3, .. in this order, each page once.
PagesInOrder ==
    /\ mcpCalls # <<>> => mcpCalls[1].first = 1
    /\ \A i \in 1..Len(mcpCalls) : mcpCalls[i].first <= mcpCalls[i].last
    /\ \A i \in 1..(Len(mcpCalls) - 1) : mcpCalls[i + 1].first = mcpCalls[i].last + 1

\* The result of the last call.
LastServed == mcpCalls[Len(mcpCalls)].result

\* Every call made so far returned a result with ok set.
AllOk == \A i \in 1..Len(mcpCalls) : mcpCalls[i].result.ok

\* Runs with adjacent runs of equally long consecutive pages joined, and runs
\* without items left out: two run sequences stand for the same item list
\* exactly when this form of them is the same.
RECURSIVE Canon(_)
Canon(runs) ==
    IF runs = <<>> THEN <<>>
    ELSE LET rest == Canon(Tail(runs))
             h == Head(runs)
         IN IF h.n = 0 THEN rest
            ELSE IF rest # <<>> /\ rest[1].n = h.n /\ rest[1].first = h.last + 1
                    THEN << [first |-> h.first, last |-> rest[1].last, n |-> h.n] >> \o Tail(rest)
                    ELSE << h >> \o rest

\* The items of the calls in runs 1..j of the log, in order.
PagesItems(j) ==
    Canon([i \in 1..j |-> [first |-> mcpCalls[i].first, last |-> mcpCalls[i].last,
                             n |-> ItemCount(mcpCalls[i].result)]])

\* C7: with only successful responses, the pages requested are 1..k in
\* increasing order, once each, where k is the first page with fewer than
\* PerPage items (an empty one included) or max_pages if there is none; the
\* returned data is the in-order concatenation of the items of pages 1..k and
\* total_items is its length.
C7_AllPages ==
    (fapPc = "returned" /\ AllOk) =>
        LET k == CallCount(mcpCalls)
        IN /\ k \in 1..max_pages
           /\ PagesInOrder
           /\ \A i \in 1..Len(mcpCalls) :
                 ItemCount(mcpCalls[i].result) < PerPage =>
                     i = Len(mcpCalls) /\ mcpCalls[i].first = k
           /\ ItemCount(LastServed) < PerPage \/ k = max_pages
           /\ fapResult.ok
           /\ Canon(fapResult.data) = PagesItems(Len(mcpCalls))
           /\ fapResult.total_items = ItemsLen(PagesItems(Len(mcpCalls)))

C7_Witness ==
    /\ fapPc = "returned"
    /\ AllOk
    /\ CallCount(mcpCalls) = 3
    /\ ItemCount(LastServed) = PerPage - 1
    /\ fapResult.total_items = 3 * PerPage - 1

C9_FailedPage ==
    /\ \A i \in 1..Len(all_data) : \A j \in 1..Len(mcpCalls) :
          (mcpCalls[j].first <= all_data[i].last /\ all_data[i].first <= mcpCalls[j].last)
              => mcpCalls[j].result.ok
    /\ (fapPc = "returned" /\ ~AllOk) =>
          LET k == CallCount(mcpCalls)
          IN IF k = 1
                THEN fapResult = LastServed /\ all_data = <<>>
                ELSE /\ fapResult.ok
                     /\ PagesInOrder
                     /\ mcpCalls[Len(mcpCalls)].first = k
                     /\ Canon(fapResult.data) = PagesItems(Len(mcpCalls) - 1)
                     /\ fapResult.total_items = (k - 1) * PerPage

C9_Witness ==
    /\ fapPc = "returned"
    /\ CallCount(mcpCalls) = 3
    /\ ~LastServed.ok
    /\ LastServed.n = PerPage
    /\ fapResult.ok
    /\ fapResult.total_items = 2 * PerPage

\* ------------------------------------------------------------------
\* Claims about bronze_fetch_full.main (checked under SpecFetch)
\* ------------------------------------------------------------------

\* The resource names of the entries of results, in order.
ResultResources == [i \in 1..Len(results) |-> results[i].resource]

\* The sum of the count fields of the entries of results.
CountsTotal ==
    LET upTo[i \in 0..Len(results)] == IF i = 0 THEN 0 ELSE upTo[i - 1] + results[i].count
    IN upTo[Len(results)]

\* The loop of main (line 224) is between two resources, or over.
BetweenFetches == fmPc = "loop" \/ (fmPc = "done" /\ distExists)

\* C10: once main has entered its loop, whatever the fetches do (error
\* results, exceptions), the resources attempted so far are RESOURCES up to
\* the loop's position, each once and in list order, and the known ones among
\* them each have one entry in results, in that order; when main is done every
\* resource was attempted and the reported total is the sum of the counts.
C10_EveryResourceFetched ==
    /\ BetweenFetches =>
          /\ rIdx \in 1..(Len(RESOURCES) + 1)
          /\ attempted = SubSeq(RESOURCES, 1, rIdx - 1)
          /\ ResultResources = SelectSeq(attempted, Known)
    /\ (fmPc = "done" /\ distExists) =>
          /\ attempted = RESOURCES
          /\ total_records = CountsTotal

C10_Witness ==
    /\ fmPc = "done"
    /\ Len(RESOURCES) = 2
    /\ Len(results) = 2
    /\ "error" \in DOMAIN results[1]
    /\ results[2].count > 0
    /\ total_records = results[2].count

\* ------------------------------------------------------------------
\* Claims about total_pages (checked under SpecPages)
\* ------------------------------------------------------------------

\* The number of pages that have items in a run-length coded item list.
RECURSIVE PagesHeld(_)
PagesHeld(data) ==
    IF data = <<>> THEN 0
    ELSE (IF Head(data).n > 0 THEN Head(data).last - Head(data).first + 1 ELSE 0)
         + PagesHeld(Tail(data))

\* The ways the loop of fetch_all_pages stops with a collected result.
StoppedShort == LastServed.ok /\ ItemCount(LastServed) \in 1..(PerPage - 1)
StoppedEmpty == LastServed.ok /\ ItemCount(LastServed) = 0
StoppedFailed == ~LastServed.ok /\ CallCount(mcpCalls) > 1
StoppedAtLimit == LastServed.ok /\ ItemCount(LastServed) = PerPage /\ CallCount(mcpCalls) = max_pages

\* C12: the total_pages of the value fetch_all_pages returns, which
\* fetch_resource reports as pages_fetched, is the number of pages whose items
\* are in the returned data, however the pagination stopped (short last page,
\* empty page, failed later page, max_pages reached).
C12_PagesFetched ==
    (fapPc = "returned" /\ fapResult.ok /\ "total_pages" \in DOMAIN fapResult) =>
        /\ StoppedShort \/ StoppedEmpty \/ StoppedFailed \/ StoppedAtLimit
        /\ fapResult.total_pages = PagesHeld(fapResult.data)

\* The three ways to stop for which total_pages is the number of pages held.
C12_CountRightUnlessShort ==
    (fapPc = "returned" /\ fapResult.ok /\ "total_pages" \in DOMAIN fapResult /\ ~StoppedShort) =>
        fapResult.total_pages = PagesHeld(fapResult.data)

\* A short last page: its items are in the data and it is not counted.
C12_ShortPageNotCounted ==
    (fapPc = "returned" /\ fapResult.ok /\ "total_pages" \in DOMAIN fapResult /\ StoppedShort) =>
        fapResult.total_pages = PagesHeld(fapResult.data) - 1

\* ------------------------------------------------------------------
\* Claims about bronze_fetch_full.fetch_resource (checked under SpecFetch)
\* ------------------------------------------------------------------

\* main is about to call fetch_resource with a name that is not in resource_config.
AtUnknown == fmPc = "loop" /\ rIdx <= Len(RESOURCES) /\ ~Known(RESOURCES[rIdx])

\* The tools the bridge was called for.
ToolsCalled == { mcpCalls[i].tool : i \in 1..Len(mcpCalls) }

\* C15: the call of fetch_resource for a name that is not in resource_config
\* changes nothing but the loop's position: no call of an MCP tool, no
\* directory, no file, no entry in results; so no directory, file or entry is
\* ever there for such a name, and every tool called is one of resource_config.
C15_UnknownResourceUntouched ==
    /\ [][AtUnknown =>
            /\ UNCHANGED <<mcpCalls, dirs, files, results, fapVars, total_records>>
            /\ rIdx' = rIdx + 1
            /\ fmPc' = "loop"]_vars
    /\ [](/\ \A d \in dirs : Known(d)
          /\ \A f \in files : Known(f[1])
          /\ \A i \in 1..Len(results) : Known(results[i].resource)
          /\ \A t \in ToolsCalled : \E r \in DOMAIN resource_config : resource_config[r].tool = t)

C15_Witness ==
    /\ fmPc = "loop"
    /\ rIdx = 3
    /\ attempted = << "accounts", "ledger" >>
    /\ Len(results) = 1
    /\ results[1].count > 0
    /\ dirs = {"accounts"}
    /\ \A f \in files : f[1] = "accounts"

\* The call of fetch_resource that the step about to be taken completes is for
\* a resource of resource_config.
FetchCompletes ==
    \/ fmPc = "paginating" /\ fapPc \in {"returned", "raised"}
    \/ /\ fmPc = "loop" /\ rIdx <= Len(RESOURCES) /\ Known(RESOURCES[rIdx])
       /\ resource_config[RESOURCES[rIdx]].strategy \in {"single", "special"}

\* The lines of a file as an item list: the metadata left out.
Items(lines) ==
    [i \in 1..Len(lines) |-> [first |-> lines[i].first, last |-> lines[i].last, n |-> lines[i].n]]

\* Every line carries _ingested_at_utc, _source_ and _resource_.
Stamped(r, lines) ==
    \A i \in 1..Len(lines) :
        lines[i].ingested /\ lines[i].source = "payday-mcp" /\ lines[i].resource = r

\* C14: a call of fetch_resource whose fetch fails or yields no records
\* creates no snapshot file and gives an entry with count 0; any other call
\* leaves a snapshot file with one line for each fetched item, in fetch order,
\* each with _ingested_at_utc, _source_ and _resource_, and the entry's count
\* is the number of lines written.
C14_SnapshotHoldsFetchedItems ==
    [][FetchCompletes =>
         LET r == RESOURCES[rIdx]
             strategy == resource_config[r].strategy
             answer == IF strategy = "paginated"
                          THEN (IF fapPc = "raised" THEN Raised ELSE fapResult)
                          ELSE mcpCalls'[Len(mcpCalls')].result
             res == CASE strategy = "paginated" -> Paginated(answer)
                      [] strategy = "single" -> SingleItem(answer)
                      [] strategy = "special" -> Special(answer)
             entry == results'[Len(results')]
         IN /\ Len(results') = Len(results) + 1
            /\ entry.resource = r
            /\ IF ~res.ok \/ res.count = 0
                  THEN files' = files /\ entry.count = 0
                  ELSE \E f \in files' :
                          /\ f[1] = r
                          /\ Canon(Items(f[2])) = Canon(res.data)
                          /\ Stamped(r, f[2])
                          /\ entry.count = ItemsLen(f[2])
                          /\ entry.count = res.count]_vars

\* What holds of every call: a file is written only for a fetch that gave
\* records, its lines are a prefix of the fetched items, stamped, and the
\* entry's count is the number of fetched items when the fetch's entry is no
\* error entry.
C14_NoFileWithoutRecords ==
    [][FetchCompletes =>
         LET r == RESOURCES[rIdx]
             strategy == resource_config[r].strategy
             answer == IF strategy = "paginated"
                          THEN (IF fapPc = "raised" THEN Raised ELSE fapResult)
                          ELSE mcpCalls'[Len(mcpCalls')].result
             res == CASE strategy = "paginated" -> Paginated(answer)
                      [] strategy = "single" -> SingleItem(answer)
                      [] strategy = "special" -> Special(answer)
             entry == results'[Len(results')]
         IN IF ~res.ok \/ res.count = 0
               THEN files' = files /\ entry.count = 0
               ELSE \E f \in files' :
                       /\ f[1] = r
                       /\ Stamped(r, f[2])
                       /\ ItemsLen(f[2]) <= res.count
                       /\ "error" \notin DOMAIN entry =>
                             /\ Canon(Items(f[2])) = Canon(res.data)
                             /\ entry.count = ItemsLen(f[2])]_vars

\* ------------------------------------------------------------------
\* Claims about the query of export_json.py (checked under SpecExport)
\* ------------------------------------------------------------------

\* The position of the one clause of exSql with keyword kw, 0 if there is none.
ClauseAt(kw) ==
    IF Clauses(exSql, kw) = {} THEN 0 ELSE CHOOSE i \in Clauses(exSql, kw) : TRUE

\* C16: the query built is SELECT * FROM <view>, then WHERE <where> exactly
\* when --where is not empty, then one ORDER BY, of --order when that is not
\* empty and of 1 DESC otherwise, then one LIMIT <limit>, which is last; the
\* flags' texts are put in as they are.
C16_QueryClauses ==
    exSql # <<>> =>
        /\ exSql[1] = [kw |-> "SELECT * FROM", text |-> exArgs.view]
        /\ Cardinality(Clauses(exSql, "SELECT * FROM")) = 1
        /\ Cardinality(Clauses(exSql, "WHERE")) = (IF exArgs.where # "" THEN 1 ELSE 0)
        /\ Cardinality(Clauses(exSql, "ORDER BY")) = 1
        /\ Cardinality(Clauses(exSql, "LIMIT")) = 1
        /\ \A i \in 1..Len(exSql) : exSql[i].kw \in {"SELECT * FROM", "WHERE", "ORDER BY", "LIMIT"}
        /\ exArgs.where # "" =>
              /\ ClauseAt("WHERE") = 2
              /\ exSql[2].text = exArgs.where
        /\ ClauseAt("ORDER BY") = Len(exSql) - 1
        /\ exSql[ClauseAt("ORDER BY")].text = (IF exArgs.order # "" THEN exArgs.order ELSE "1 DESC")
        /\ ClauseAt("LIMIT") = Len(exSql)
        /\ exSql[Len(exSql)].n = exArgs.limit

C16_Witness ==
    /\ exPc = "ended"
    /\ exRaised = "none"
    /\ exArgs.where = "c1 > 1"
    /\ exArgs.order = ""
    /\ exArgs.limit = DefaultLimit
    /\ Len(exSql) = 4
    /\ exSql[3] = [kw |-> "ORDER BY", text |-> "1 DESC"]

\* ------------------------------------------------------------------
\* Claims about the Bronze check after a fetch (checked under SpecIngestBuild)
\* ------------------------------------------------------------------

\* fetch_resource has written a snapshot: a file with at least one line.
SnapshotWritten == \E f \in files : f[2] # <<>>

\* C13: when a fetch has written a snapshot, the Bronze check of
\* build_pipeline.main finds JSONL files and prints that it found them, not
\* the warning that there is no Bronze data.
C13_BronzeFoundAfterFetch ==
    (SnapshotWritten /\ bpPc \notin {"idle", "start"}) =>
        /\ bronzeFiles > 0
        /\ bpOut[1] = "OK bronze found"
        /\ \A i \in 1..Len(bpOut) : bpOut[i] # "WARN no bronze"

\* What the check does find after a fetch into an empty working directory:
\* nothing, whatever was written.
C13_NothingFoundAfterFetch ==
    bpPc \notin {"idle", "start"} =>
        /\ bronzeFiles = 0
        /\ bpOut[1] = "WARN no bronze"

\* ------------------------------------------------------------------
\* Claims about test_pipeline.py (checked under SpecTestPipeline)
\* ------------------------------------------------------------------

\* The connections to duckdb/finance.duckdb, as indices into connections.
FileConnections == { i \in 1..Len(connections) : connections[i].db = FinanceDb }

\* The outcome logged for a step of test_sequential_file, "none" when the step
\* was not attempted.
FileStep(step) ==
    LET at == { i \in 1..Len(tpLog) : tpLog[i].fn = "file" /\ tpLog[i].step = step }
    IN IF at = {} THEN "none" ELSE tpLog[CHOOSE i \in at : TRUE].outcome

\* test_sequential_file has returned.
FileReturned == file_ok # "none"

\* Connection management of test_sequential_file: the connection made first
\* (Silver's) is closed in every state in which a second one (Gold's) exists,
\* at most one is open at a time, none is open once the function has returned
\* or while its handler runs, and Gold is attempted only after a Silver build
\* that raised nothing.
SequentialConnections ==
    /\ Cardinality(FileConnections) <= 2
    /\ \A i, j \in FileConnections : i < j => ~connections[i].open
    /\ Cardinality({ i \in FileConnections : connections[i].open }) <= 1
    /\ (FileReturned \/ tpPc = "s_except") => \A i \in 1..Len(connections) : ~connections[i].open
    /\ (Cardinality(FileConnections) = 2 \/ FileStep("gold") # "none") => FileStep("silver") = "ok"
    /\ FileStep("silver") \notin {"ok", "none"} => (FileReturned => file_ok = "False")

\* C11 as stated: the connection management above, and test_sequential_file
\* returns True exactly when the Silver build and the Gold build executed
\* without an exception.
C11_SequentialAsStated ==
    /\ SequentialConnections
    /\ FileReturned => (file_ok = "True" <=> (FileStep("silver") = "ok" /\ FileStep("gold") = "ok"))

\* C11, amended: the connection management above, and test_sequential_file
\* returns True exactly when the Silver build, the Gold build and the count
\* queries that validate Gold all executed without an exception; it returns
\* False when any of them, or a connect, raised.
C11_SequentialConnections ==
    /\ SequentialConnections
    /\ FileReturned =>
          (file_ok = "True" <=> ( /\ FileStep("silver") = "ok"
                                  /\ FileStep("gold") = "ok"
                                  /\ FileStep("validate") = "ok" ))

C11_Witness ==
    /\ file_ok = "False"
    /\ FileStep("silver") = "ok"
    /\ FileStep("gold") = "ok"
    /\ FileStep("validate") = "execute raises"
    /\ Cardinality(FileConnections) = 2
    /\ \A i \in FileConnections : ~connections[i].open

\* ------------------------------------------------------------------
\* Claims about bronze_fetch.py (checked under SpecBronzeFetch)
\* ------------------------------------------------------------------

\* C17: the client main opens stays open and usable for every resource: it
\* is open while the loop runs and whenever it is passed to fetch_resource,
\* no call of fetch_resource is refused the client, and the client is closed
\* only when the loop is over.
C17_ClientOpenForEveryResource ==
    /\ bfPc \in {"loop", "paging"} => client = "opened"
    /\ \A i \in 1..Len(bfLog) :
          /\ bfLog[i].client = "opened"
          /\ bfLog[i].outcome # "client refused"
    /\ client = "closed" => bfPc = "done"

\* With an httpx that keeps the client's state: the client stays open, and
\* every fetch of a resource with a route is refused it.
C17_EveryFetchRefused ==
    httpxChecksState =>
        /\ bfPc \in {"loop", "paging"} => client = "opened"
        /\ bfPc # "paging"
        /\ \A i \in 1..Len(bfLog) :
              bfLog[i].resource \in routes => bfLog[i].outcome = "client refused"

\* With an httpx that enters any client: the first fetch of a resource with a
\* route closes the client, and it is closed for every later fetch.
C17_FirstFetchCloses ==
    ~httpxChecksState =>
        \A i, j \in 1..Len(bfLog) :
            (i < j /\ bfLog[i].resource \in routes /\ bfLog[i].outcome # "running")
                => bfLog[j].client = "closed"

\* ------------------------------------------------------------------
\* Claims about silver_test.py (checked under SpecSilverTest)
\* ------------------------------------------------------------------

\* The tags of the lines printed, as a set.
SvPrinted == { svOut[i] : i \in 1..Len(svOut) }

\* The quality checks report and do not gate: whatever the two counts are, a
\* run that got past them ends with every warning due printed, the success
\* line last, status 0 and the connection closed; a query for the details of
\* a warning that raises changes none of this.
QcReportsOnly ==
    /\ svExit \in {-1, 0, 1}
    /\ svPc \in {"orphans", "missing", "summaries", "close"} => svRaised = "none"
    /\ (svPc = "ended" /\ svRaised = "none") =>
          /\ svExit = 0
          /\ svOut[Len(svOut)] = "SUCCESS Silver layer built"
          /\ svCon = "closed"
          /\ qc1 > 0 <=> "WARN orphan transactions" \in SvPrinted
          /\ qc2 > 0 <=> "WARN missing fields" \in SvPrinted
    /\ svExit = 0 => svRaised = "none"
    /\ (svPc = "ended" /\ svRaised # "none") =>
          /\ svExit = 1
          /\ "SUCCESS Silver layer built" \notin SvPrinted

\* C18 as stated: the quality checks report and do not gate, and the status
\* is 1 only when the SQL file is missing or a build or count query raised.
C18_ExitOneOnlyForSqlOrQuery ==
    /\ QcReportsOnly
    /\ svExit = 1 => svRaised \in {"sql missing", "build", "count"}

\* C18, amended: the quality checks report and do not gate, and the status is
\* 1 only when duckdb cannot be imported, the SQL file is missing or cannot be
\* read, the connect raises, a build or count query raises, or printing the
\* orphan count raises.
C18_QualityChecksDoNotGate ==
    /\ QcReportsOnly
    /\ svExit = 1 =>
          svRaised \in {"import", "sql missing", "read", "connect", "build", "count", "print"}

C18_Witness ==
    /\ svPc = "ended"
    /\ qc1 = MaxQc
    /\ qc2 = 1
    /\ svExit = 0
    /\ svCon = "closed"
    /\ "Could not fetch orphan details" \in SvPrinted
    /\ svOut[Len(svOut)] = "SUCCESS Silver layer built"

\* ------------------------------------------------------------------
\* Claims about convert_to_parquet.py (checked under SpecConvert)
\* ------------------------------------------------------------------

\* The timestamp of a snapshot name as a number.
RECURSIVE Stamp(_)
Stamp(name) == IF name = <<>> THEN 0 ELSE Stamp(SubSeq(name, 1, Len(name) - 1)) * 10 + name[Len(name)]

\* The directories the loop has dealt with, and those among them with JSONL files.
Processed == SubSeq(resource_dirs, 1, cvIdx - 1)
HasJsonl(d) == d.jsonl # {}

\* The directory of a resource.
DirOf(resource) == CHOOSE d \in { resource_dirs[i] : i \in 1..Len(resource_dirs) } : d.name = resource

====
